---- MODULE Spec2Model ----
(***************************************************************************)
(* Model of the Quantity value type of ao-tokens (src/src/Quantity.ts).    *)
(* A Quantity is a record [qty, D]: the private fields #qty (raw scaled    *)
(* integer) and #D (denomination).  Strings are sequences of one-character *)
(* strings, so that slicing, padding and parsing are computed as the code  *)
(* computes them.  A call that throws is a result with err = TRUE.         *)
(***************************************************************************)
EXTENDS Integers, Sequences, FiniteSets, TLC

VARIABLES
    x,      \* the receiver instance  [qty, D]
    y,      \* a second instance, the operand of binary operators
    op,     \* name of the last operation called ("init" before any call)
    x0,     \* the receiver as it was before the last operation
    arg,    \* non-Quantity arguments of the last call [n, s, qs, options]
    out,    \* what the last call returned / computed
            \* [err, q, b, s, qs, integer, fractional, undefined]
    token,  \* the TokenInstance: [id, info, signer] (src/src/Token.ts)
    heap,   \* the Quantity instances handed out by the token, by reference
    sent    \* the messages handed to ao.message(), in order

\* the state of the token process client
tokenVars == <<token, heap, sent>>

vars == <<x, y, op, x0, arg, out, token, heap, sent>>

(***************************************************************************)
(* Bounds of the model.                                                    *)
(***************************************************************************)
MaxRaw == 5        \* |raw| of the receivers the arithmetic runs start from
MaxOperand == 2    \* |value| of the operands: raw = r * 10^k, |r| <= MaxOperand
MaxD == 2          \* largest denomination of those instances
MaxExp == 2        \* largest |exponent| handed to pow
MaxList == 3       \* longest list handed to sameDenomination
MaxListRaw == 1    \* |raw| of the instances in those lists
MaxLen == 4        \* longest enumerated input string of fromString
MaxFresh == 1      \* raw of the instances a string is parsed into is 0..MaxFresh
MaxStrRaw == 120   \* |raw| of the instances that are formatted

(***************************************************************************)
(* BigInt arithmetic.                                                      *)
(***************************************************************************)
Abs(a) == IF a < 0 THEN -a ELSE a

Min2(a, b) == IF a < b THEN a ELSE b

\* BigInt "/" : division truncating toward zero (b # 0)
BigIntDiv(a, b) ==
    IF (a >= 0) = (b > 0) THEN Abs(a) \div Abs(b) ELSE -(Abs(a) \div Abs(b))

\* BigInt "%" : remainder with the sign of the dividend (b # 0)
BigIntRem(a, b) == a - b * BigIntDiv(a, b)

RECURSIVE BigIntPow(_, _)
\* BigInt "**" for a non-negative exponent
BigIntPow(b, e) == IF e <= 0 THEN 1 ELSE b * BigIntPow(b, e - 1)

\* a / 10n ** k, computed digit by digit so that 10 ** k is never built when
\* it exceeds the 32-bit integers of TLC (same value: truncation toward
\* zero composes)
RECURSIVE DivPow10(_, _)
DivPow10(a, k) == IF k <= 0 \/ a = 0 THEN a ELSE DivPow10(BigIntDiv(a, 10), k - 1)

(***************************************************************************)
(* Instances.                                                              *)
(***************************************************************************)
\* new Quantity(base: bigint, denomination)
Quantity(base, denomination) == [qty |-> base, D |-> denomination]

\* a returned instance / a thrown error
Ok(q) == [err |-> FALSE, v |-> q]
Thrown == [err |-> TRUE, v |-> Quantity(0, 0)]

\* an integer part rounded toward minus infinity
integer_floored(q) == q.qty \div BigIntPow(10, q.D)

\* get integer()
integer(q) == BigIntDiv(q.qty, BigIntPow(10, q.D))

\* get fractional()
fractional(q) == q.qty - integer(q) * BigIntPow(10, q.D)

\* clone()
clone(q) == Quantity(q.qty, q.D)

\* a one that is not scaled to the denomination
__one_unscaled(denomination) == Quantity(1, denomination)

\* static __one(denomination)
__one(denomination) == Quantity(BigIntPow(10, denomination), denomination)

(***************************************************************************)
(* Strings: a string is a sequence of one-character strings.               *)
(***************************************************************************)
DigitChars == <<"0", "1", "2", "3", "4", "5", "6", "7", "8", "9">>

IsDigit(c) == \E i \in 1..10 : DigitChars[i] = c

DigitValue(c) == (CHOOSE i \in 1..10 : DigitChars[i] = c) - 1

AllDigits(s) == \A i \in 1..Len(s) : IsDigit(s[i])

RECURSIVE NatToString(_)
NatToString(n) ==
    IF n < 10 THEN <<DigitChars[n + 1]>>
    ELSE Append(NatToString(n \div 10), DigitChars[(n % 10) + 1])

\* BigInt.prototype.toString(): plain decimal digits, "-" for a negative value
BigIntToString(n) == IF n < 0 THEN <<"-">> \o NatToString(-n) ELSE NatToString(n)

RECURSIVE DigitsToNat(_)
DigitsToNat(s) ==
    IF s = <<>> THEN 0
    ELSE 10 * DigitsToNat(SubSeq(s, 1, Len(s) - 1)) + DigitValue(s[Len(s)])

\* BigInt(string): the empty string is 0n; an optional sign followed by at
\* least one decimal digit is that integer; anything else is a SyntaxError.
\* (Whitespace and the 0x/0o/0b prefixes do not occur over the alphabet used.)
StringToBigInt(s) ==
    IF s = <<>> THEN [err |-> FALSE, n |-> 0]
    ELSE LET signed == s[1] \in {"-", "+"}
             body == IF signed THEN Tail(s) ELSE s
         IN  IF body = <<>> \/ ~AllDigits(body) THEN [err |-> TRUE, n |-> 0]
             ELSE [err |-> FALSE,
                   n |-> IF s[1] = "-" THEN -DigitsToNat(body) ELSE DigitsToNat(body)]

\* String.prototype.slice(start, end) for 0 <= start
Slice(s, start, end) == SubSeq(s, start + 1, Min2(end, Len(s)))

\* String.prototype.slice(start)
SliceFrom(s, start) == SubSeq(s, start + 1, Len(s))

RECURSIVE Repeat(_, _)
\* String.prototype.repeat(n)
Repeat(c, n) == IF n <= 0 THEN <<>> ELSE <<c>> \o Repeat(c, n - 1)

\* String.prototype.padStart(n, c)
PadStart(s, n, c) == Repeat(c, n - Len(s)) \o s

RECURSIVE StripTrailingZeros(_)
\* replace(/0*$/, "")
StripTrailingZeros(s) ==
    IF s # <<>> /\ s[Len(s)] = "0" THEN StripTrailingZeros(SubSeq(s, 1, Len(s) - 1))
    ELSE s

\* replace(/,/g, "")
RemoveCommas(s) == SelectSeq(s, LAMBDA c : c # ",")

RECURSIVE Split(_)
\* String.prototype.split("."): the parts between the points
Split(s) ==
    IF \A i \in 1..Len(s) : s[i] # "." THEN <<s>>
    ELSE LET k == CHOOSE i \in 1..Len(s) : s[i] = "." /\ \A j \in 1..(i - 1) : s[j] # "."
         IN  <<SubSeq(s, 1, k - 1)>> \o Split(SubSeq(s, k + 1, Len(s)))

RECURSIVE GroupDigits(_)
\* digit grouping of the integer part (en-US: a comma every three digits)
GroupDigits(s) ==
    IF Len(s) <= 3 THEN s
    ELSE GroupDigits(SubSeq(s, 1, Len(s) - 3)) \o <<",">> \o SubSeq(s, Len(s) - 2, Len(s))

\* BigInt.prototype.toLocaleString(locales, {useGrouping, maximumFractionDigits: 0})
BigIntToLocaleString(n, useGrouping) ==
    IF ~useGrouping THEN BigIntToString(n)
    ELSE IF n < 0 THEN <<"-">> \o GroupDigits(NatToString(-n))
    ELSE GroupDigits(NatToString(n))

(***************************************************************************)
(* Parsing and formatting.                                                 *)
(***************************************************************************)
MaxFractionDigits == 20

\* the fractional digits taken whole, none discarded
WholeFractions(plainFractions, D) == plainFractions

\* plainFractions.slice(0, Number(this.#D)): the part that is at most as long
\* as the denomination; the other part is discarded
RelevantPart(plainFractions, D) == Slice(plainFractions, 0, D)

\* the fractional part left as parsed, not filled to the denomination
Unfilled(fractionalPart, length, D) == fractionalPart

\* "fill to match denomination"
FillToDenomination(fractionalPart, length, D) ==
    IF length < D THEN fractionalPart * BigIntPow(10, D - length) ELSE fractionalPart

\* fromString(value) on the instance q: the instance afterwards, or a throw
\* (the field is written only by the last statement, so a throw stores nothing)
fromString(q, value) ==
    IF value = <<>> THEN Ok(Quantity(0, q.D))
    ELSE
      LET v == RemoveCommas(value) IN
      IF v = <<>> THEN Ok(Quantity(0, q.D))
      ELSE
        LET dMul == BigIntPow(10, q.D)
            parts == Split(v)
            intPart == StringToBigInt(parts[1])
            hasFractions == Len(parts) >= 2 /\ parts[2] # <<>>
            relevantPart == RelevantPart(parts[2], q.D)
            parsed == StringToBigInt(relevantPart)
            fractionalPart == FillToDenomination(parsed.n, Len(relevantPart), q.D)
        IN  IF intPart.err THEN Thrown
            ELSE IF ~hasFractions THEN Ok(Quantity(intPart.n * dMul, q.D))
            ELSE IF parsed.err THEN Thrown
            ELSE Ok(Quantity(intPart.n * dMul + fractionalPart, q.D))

\* options of toLocaleString; 0 stands for an option that is not given
\* (the code tests both with "!" and "||", which treat 0 and undefined alike)
Options(maxFD, minFD, grouping) ==
    [maximumFractionDigits |-> maxFD, minimumFractionDigits |-> minFD,
     useGrouping |-> grouping]

\* toLocaleString(locales, options): the string, or a throw
toLocaleString(q, options) ==
    IF q.qty = 0 THEN [err |-> FALSE, s |-> <<"0">>]
    ELSE
      LET maximumFractionDigits ==
              IF options.maximumFractionDigits = 0
              THEN (IF q.D > MaxFractionDigits THEN MaxFractionDigits ELSE q.D)
              ELSE options.maximumFractionDigits
          dMul == BigIntPow(10, q.D)
          integerPart == BigIntDiv(q.qty, dMul)
          formatted == BigIntToLocaleString(integerPart, options.useGrouping)
          fractionalPartStart ==
              IF integerPart # 0 THEN Len(BigIntToString(integerPart)) ELSE 0
          sliced ==
              Slice(PadStart(SliceFrom(BigIntToString(q.qty), fractionalPartStart),
                             q.D, "0"),
                    0, maximumFractionDigits)
          fractions ==
              IF options.minimumFractionDigits > Len(sliced)
              THEN sliced \o Repeat("0", options.minimumFractionDigits - Len(sliced))
              ELSE sliced
          parsed == StringToBigInt(fractions)
      IN  IF maximumFractionDigits = 0 \/ fractions = <<>>
          THEN [err |-> FALSE, s |-> formatted]
          ELSE IF parsed.err THEN [err |-> TRUE, s |-> <<>>]
          ELSE IF parsed.n > 0
          THEN [err |-> FALSE, s |-> formatted \o <<".">> \o StripTrailingZeros(fractions)]
          ELSE [err |-> FALSE, s |-> formatted]

\* toString()
toString(q) == toLocaleString(q, Options(0, 0, FALSE))

(***************************************************************************)
(* Denomination conversion and comparison.                                 *)
(***************************************************************************)
\* __convert with the downscale rounded toward negative infinity
__convert_floored(instance, newDenomination) ==
    LET denominationDiff == newDenomination - instance.D
        newQty == IF newDenomination >= instance.D
                  THEN instance.qty * BigIntPow(10, denominationDiff)
                  ELSE instance.qty \div BigIntPow(10, -denominationDiff)
    IN  Quantity(newQty, newDenomination)

\* static __convert(instance, newDenomination)
__convert(instance, newDenomination) ==
    LET denominationDiff == newDenomination - instance.D
        newQty == IF newDenomination >= instance.D
                  THEN instance.qty * BigIntPow(10, denominationDiff)
                  ELSE DivPow10(instance.qty, -denominationDiff)
    IN  Quantity(newQty, newDenomination)

\* _convert(newDenomination)
_convert(this, newDenomination) ==
    LET newInst == __convert(this, newDenomination)
    IN  Quantity(newInst.qty, newDenomination)

\* the reduce keeping the current element at every step
LastDenomination(quantities) == quantities[Len(quantities)].D

RECURSIVE LargestDenomination(_)
\* quantities.reduce((prev, curr) => prev.#D > curr.#D ? prev : curr).#D
LargestDenomination(quantities) ==
    IF Len(quantities) = 1 THEN quantities[1].D
    ELSE LET prev == LargestDenomination(SubSeq(quantities, 1, Len(quantities) - 1))
             curr == quantities[Len(quantities)].D
         IN  IF prev > curr THEN prev ELSE curr

\* static sameDenomination(...quantities)
sameDenomination(quantities) ==
    IF Len(quantities) < 1 THEN quantities
    ELSE LET largestDenomination == LargestDenomination(quantities)
         IN  [i \in 1..Len(quantities) |->
                IF quantities[i].D = largestDenomination THEN quantities[i]
                ELSE __convert(quantities[i], largestDenomination)]

\* static eq(x, y)
eq(a, b) == LET s == sameDenomination(<<a, b>>) IN s[1].qty = s[2].qty

\* lt comparing the raws without aligning the denominations
lt_unaligned(a, b) == a.qty < b.qty

\* static lt(x, y)
lt(a, b) == LET s == sameDenomination(<<a, b>>) IN s[1].qty < s[2].qty

\* static le(x, y)
le(a, b) == LET s == sameDenomination(<<a, b>>) IN s[1].qty <= s[2].qty

\* what min and max return: an instance of the list, or undefined
Defined(q) == [undefined |-> FALSE, v |-> q]

Undefined == [undefined |-> TRUE, v |-> Quantity(0, 0)]

RECURSIVE ReduceFrom(_, _, _, _)
\* quantities.reduce((prev, curr) => { const [a, b] = sameDenomination(prev,
\* curr); return lt(a, b) ? <prev or curr> : <the other> }) from element i on:
\* keepPrev says which of the two a true lt keeps
ReduceFrom(quantities, prev, i, keepPrev) ==
    IF i > Len(quantities) THEN prev
    ELSE LET s == sameDenomination(<<prev, quantities[i]>>)
         IN  ReduceFrom(quantities,
                        IF lt(s[1], s[2]) = keepPrev THEN prev ELSE quantities[i],
                        i + 1, keepPrev)

\* a min that returns the first element
min_first(quantities) ==
    IF Len(quantities) = 0 THEN Undefined ELSE Defined(quantities[1])

\* static min(...quantities)
min(quantities) ==
    IF Len(quantities) = 0 THEN Undefined
    ELSE Defined(ReduceFrom(quantities, quantities[1], 2, TRUE))

\* static max(...quantities)
max(quantities) ==
    IF Len(quantities) = 0 THEN Undefined
    ELSE Defined(ReduceFrom(quantities, quantities[1], 2, FALSE))

(***************************************************************************)
(* Static operators.  Each returns Ok(instance) or Thrown.                 *)
(***************************************************************************)
\* an addition of the raws as they are, without sameDenomination
__add_unaligned(a, b) == Ok(Quantity(a.qty + b.qty, a.D))

\* static __add(x, y)
__add(a, b) ==
    LET s == sameDenomination(<<a, b>>)
    IN  Ok(Quantity(s[1].qty + s[2].qty, s[1].D))

\* static __sub(x, y)
__sub(a, b) ==
    LET s == sameDenomination(<<a, b>>)
    IN  Ok(Quantity(s[1].qty - s[2].qty, s[1].D))

\* a multiplication whose division by 10 ** D rounds toward minus infinity
__mul_floored(a, b) ==
    LET s == sameDenomination(<<a, b>>)
    IN  Ok(Quantity((s[1].qty * s[2].qty) \div BigIntPow(10, s[1].D), s[1].D))

\* static __mul(x, y)
__mul(a, b) ==
    LET s == sameDenomination(<<a, b>>)
    IN  Ok(Quantity(BigIntDiv(s[1].qty * s[2].qty, BigIntPow(10, s[1].D)), s[1].D))

\* a division that rounds toward minus infinity
__div_floored(a, b) ==
    LET s == sameDenomination(<<a, b>>)
        n == s[1].qty * BigIntPow(10, s[1].D)
    IN  IF s[2].qty = 0 THEN Thrown
        ELSE Ok(Quantity(IF s[2].qty > 0 THEN n \div s[2].qty ELSE (-n) \div (-s[2].qty),
                         s[1].D))

\* a division that returns zero for a zero divisor
__div_zero(a, b) ==
    LET s == sameDenomination(<<a, b>>)
    IN  IF s[2].qty = 0 THEN Ok(Quantity(0, s[1].D))
        ELSE Ok(Quantity(BigIntDiv(s[1].qty * BigIntPow(10, s[1].D), s[2].qty), s[1].D))

\* static __div(x, y): BigInt division by 0n throws a RangeError
__div(a, b) ==
    LET s == sameDenomination(<<a, b>>)
    IN  IF s[2].qty = 0 THEN Thrown
        ELSE Ok(Quantity(BigIntDiv(s[1].qty * BigIntPow(10, s[1].D), s[2].qty), s[1].D))

\* a remainder with the sign of the divisor (floored division)
__mod_floored(a, b) ==
    LET s == sameDenomination(<<a, b>>)
        r == BigIntRem(s[1].qty, s[2].qty)
    IN  IF s[2].qty = 0 THEN Thrown
        ELSE Ok(Quantity(IF r # 0 /\ ((r < 0) # (s[2].qty < 0)) THEN r + s[2].qty ELSE r,
                         s[1].D))

\* static __mod(x, y): BigInt remainder by 0n throws a RangeError
__mod(a, b) ==
    LET s == sameDenomination(<<a, b>>)
    IN  IF s[2].qty = 0 THEN Thrown
        ELSE Ok(Quantity(BigIntRem(s[1].qty, s[2].qty), s[1].D))

\* the in-place tail without the conversion back to the receiver's denomination
StoreUnconverted(this, res) ==
    IF res.err THEN Thrown ELSE Ok(Quantity(res.v.qty, this.D))

\* the tail of every in-place binary operator:
\*   const res = Quantity.__convert(<static result>, this.#D); this.#qty = res.#qty
\* (a throw of the static operator leaves the receiver as it was)
StoreConverted(this, res) ==
    IF res.err THEN Thrown
    ELSE Ok(Quantity(__convert(res.v, this.D).qty, this.D))

\* _add(y)
_add(this, b) == StoreConverted(this, __add(this, b))

\* _sub(y)
_sub(this, b) == StoreConverted(this, __sub(this, b))

\* _mul(y)
_mul(this, b) == StoreConverted(this, __mul(this, b))

\* _div(y)
_div(this, b) == StoreConverted(this, __div(this, b))

\* _mod(y)
_mod(this, b) == StoreConverted(this, __mod(this, b))

(***************************************************************************)
(* pow.  The exponent is a bigint or a Quantity.                           *)
(***************************************************************************)
BigIntExponent(n) == [big |-> TRUE, n |-> n, q |-> Quantity(0, 0)]

QuantityExponent(q) == [big |-> FALSE, n |-> 0, q |-> q]

\* Number(str) of a string toString() made, as far as "Math.abs(y) - 1" and
\* "y < 0" read it: sign, whole part, and whether a fraction follows
ToNumber(s) ==
    LET parts == Split(s)
        whole == StringToBigInt(parts[1]).n
        frac == Len(parts) >= 2 /\ StringToBigInt(parts[2]).n # 0
    IN  [neg |-> s # <<>> /\ s[1] = "-" /\ (whole # 0 \/ frac),
         whole |-> Abs(whole), frac |-> frac]

\* how often "for (let i = 0; i < Math.abs(y) - 1; i++)" runs its body
LoopCount(num) ==
    IF num.whole = 0 THEN 0 ELSE (num.whole - 1) + (IF num.frac THEN 1 ELSE 0)

RECURSIVE MulLoop(_, _, _)
\* res._mul(x), n times
MulLoop(res, a, n) == IF n <= 0 THEN res ELSE MulLoop(_mul(res, a).v, a, n - 1)

\* integer power branch of __pow (typeof y === "bigint", y # 0n):
\* "x.#D ** y" throws a RangeError for a negative bigint exponent
PowBigInt(a, n) ==
    IF n < 0 THEN Thrown
    ELSE LET positivePower ==
                 _convert(Quantity(BigIntPow(a.qty, IF n > 0 THEN n ELSE -n),
                                   BigIntPow(a.D, n)),
                          a.D)
         IN  IF n > 0 THEN Ok(positivePower)
             ELSE _div(__one(a.D), positivePower)

\* Quantity exponent branch of __pow
PowQuantity(a, b) ==
    LET s == sameDenomination(<<a, b>>)
        str == toString(s[2])
        num == ToNumber(str.s)
        res == MulLoop(clone(s[1]), s[1], LoopCount(num))
    IN  IF str.err THEN Thrown
        ELSE IF num.neg THEN __div(__one(res.D), res)
        ELSE Ok(res)

\* a __pow that returns zero for a zero exponent
__pow_zero(a, e) ==
    IF (e.big /\ e.n = 0) \/ (~e.big /\ eq(e.q, Quantity(0, e.q.D)))
    THEN Ok(Quantity(0, a.D))
    ELSE IF e.big THEN PowBigInt(a, e.n)
    ELSE PowQuantity(a, e.q)

\* static __pow(x, y)
__pow(a, e) ==
    IF (e.big /\ e.n = 0) \/ (~e.big /\ eq(e.q, Quantity(0, e.q.D)))
    THEN Ok(__one(a.D))
    ELSE IF e.big THEN PowBigInt(a, e.n)
    ELSE PowQuantity(a, e.q)

\* _pow(y)
_pow(this, e) == StoreConverted(this, __pow(this, e))

(***************************************************************************)
(* Unary operators.                                                        *)
(***************************************************************************)
\* _one()
_one(this) == Quantity(BigIntPow(10, this.D), this.D)

\* a trunc whose remainder is never negative
__trunc_floored(a) ==
    Quantity(a.qty - (a.qty % BigIntPow(10, a.D)), a.D)

\* static __trunc(x)
__trunc(a) == Quantity(a.qty - BigIntRem(a.qty, BigIntPow(10, a.D)), a.D)

\* _trunc()
_trunc(this) == Quantity(__trunc(this).qty, this.D)

\* static __floor(x)
__floor(a) ==
    LET res == __trunc(a)
    IN  IF a.qty < 0 THEN Quantity(res.qty - BigIntPow(10, a.D), res.D) ELSE res

\* _floor()
_floor(this) == Quantity(__floor(this).qty, this.D)

\* static __ceil(x)
__ceil(a) ==
    LET res == __trunc(a)
    IN  IF a.qty > 0 THEN Quantity(res.qty + BigIntPow(10, a.D), res.D) ELSE res

\* _ceil()
_ceil(this) == Quantity(__ceil(this).qty, this.D)

\* static __neg(x)
__neg(a) == Quantity(-a.qty, a.D)

\* _neg()
_neg(this) == Quantity(-this.qty, this.D)

\* static __abs(x)
__abs(a) == LET res == clone(a) IN IF a.qty < 0 THEN Quantity(-res.qty, res.D) ELSE res

\* _abs()
_abs(this) == IF this.qty >= 0 THEN this ELSE Quantity(-this.qty, this.D)

(***************************************************************************)
(* The state machine: a receiver x and an operand y, and the operations    *)
(* of the class applied to them one call at a time.                        *)
(***************************************************************************)
NoArg == [n |-> 0, big |-> FALSE, s |-> <<>>, qs |-> <<>>, options |-> Options(0, 0, FALSE)]

NoOut ==
    [err |-> FALSE, q |-> Quantity(0, 0), b |-> FALSE, s |-> <<>>, qs |-> <<>>,
     integer |-> 0, fractional |-> 0, undefined |-> FALSE]

\* the runs about Quantity alone have no token
NoToken == [id |-> <<>>, info |-> [Denomination |-> 0, Mirror |-> <<>>], signer |-> "none"]

NoTokenInstance == token = NoToken /\ heap = <<>> /\ sent = <<>>

Denominations == 0..MaxD

\* the receivers: new Quantity(r, d)
Instances == {Quantity(r, d) : r \in -MaxRaw..MaxRaw, d \in Denominations}

\* the operands: new Quantity(r * 10n ** k, d), values with few significant
\* digits at every denomination (whole numbers at d > 0 among them)
Operands ==
    LET scaled == {Quantity(r * BigIntPow(10, k), d) :
                      r \in -MaxOperand..MaxOperand, d \in Denominations, k \in Denominations}
    IN  {q \in scaled : Abs(q.qty) <= MaxOperand * BigIntPow(10, q.D)}

\* calls are made while the receiver is within the bounds of the model
InBounds == Abs(x.qty) <= MaxRaw /\ x.D <= MaxD

Init ==
    /\ x \in Instances
    /\ y \in Operands
    /\ op = "init"
    /\ x0 = x
    /\ arg = NoArg
    /\ out = NoOut
    /\ NoTokenInstance

\* an in-place operator whose static counterpart returned res: the receiver
\* takes the value r.v unless the call threw
InPlace(name, r, res, a) ==
    /\ x' = IF r.err THEN x ELSE r.v
    /\ x0' = x
    /\ op' = name
    /\ arg' = a
    /\ out' = [NoOut EXCEPT !.err = r.err, !.q = res.v]
    /\ UNCHANGED y
    /\ UNCHANGED tokenVars

\* a static call that leaves both instances alone
Static(name, o, a) ==
    /\ x0' = x
    /\ op' = name
    /\ arg' = a
    /\ out' = o
    /\ UNCHANGED <<x, y>>
    /\ UNCHANGED tokenVars

Add == InBounds /\ InPlace("add", _add(x, y), __add(x, y), NoArg)

Sub == InBounds /\ InPlace("sub", _sub(x, y), __sub(x, y), NoArg)

Mul == InBounds /\ InPlace("mul", _mul(x, y), __mul(x, y), NoArg)

Div == InBounds /\ InPlace("div", _div(x, y), __div(x, y), NoArg)

Mod == InBounds /\ InPlace("mod", _mod(x, y), __mod(x, y), NoArg)

\* x._pow(y) with the Quantity y as exponent
PowQ ==
    /\ InBounds
    /\ Abs(y.qty) <= MaxExp * BigIntPow(10, y.D)   \* |exponent| <= MaxExp
    /\ InPlace("pow", _pow(x, QuantityExponent(y)), __pow(x, QuantityExponent(y)), NoArg)

\* x._pow(n) with a bigint exponent
PowN ==
    \E n \in -MaxExp..MaxExp :
        InBounds /\ InPlace("pow", _pow(x, BigIntExponent(n)), __pow(x, BigIntExponent(n)),
                [NoArg EXCEPT !.n = n, !.big = TRUE])

\* x._convert(T)
Convert ==
    \E T \in 0..(MaxD + 1) :
        InBounds /\ InPlace("convert", Ok(_convert(x, T)), Ok(__convert(x, T)), [NoArg EXCEPT !.n = T])

Trunc == InBounds /\ InPlace("trunc", Ok(_trunc(x)), Ok(__trunc(x)), NoArg)

Floor == InBounds /\ InPlace("floor", Ok(_floor(x)), Ok(__floor(x)), NoArg)

Ceil == InBounds /\ InPlace("ceil", Ok(_ceil(x)), Ok(__ceil(x)), NoArg)

Neg == InBounds /\ InPlace("neg", Ok(_neg(x)), Ok(__neg(x)), NoArg)

AbsValue == InBounds /\ InPlace("abs", Ok(_abs(x)), Ok(__abs(x)), NoArg)

One == InBounds /\ InPlace("one", Ok(_one(x)), Ok(__one(x.D)), NoArg)

Eq == InBounds /\ Static("eq", [NoOut EXCEPT !.b = eq(x, y)], NoArg)

Lt == InBounds /\ Static("lt", [NoOut EXCEPT !.b = lt(x, y)], NoArg)

Le == InBounds /\ Static("le", [NoOut EXCEPT !.b = le(x, y)], NoArg)

Next ==
    \/ Add \/ Sub \/ Mul \/ Div \/ Mod \/ PowQ \/ PowN
    \/ Convert \/ Trunc \/ Floor \/ Ceil \/ Neg \/ AbsValue \/ One
    \/ Eq \/ Lt \/ Le

Spec == Init /\ [][Next]_vars

(***************************************************************************)
(* Lists of instances: the input list is chosen at the start (arg.qs) and  *)
(* Quantity.sameDenomination is applied to it, then to its own result.     *)
(***************************************************************************)
ListInstances == {Quantity(r, d) : r \in -MaxListRaw..MaxListRaw, d \in Denominations}

\* the lists of at most n elements of s
RECURSIVE ListsUpTo(_, _)
ListsUpTo(s, n) ==
    IF n = 0 THEN {<<>>}
    ELSE LET shorter == ListsUpTo(s, n - 1)
         IN  shorter \cup {Append(l, e) : l \in {k \in shorter : Len(k) = n - 1}, e \in s}

InitList ==
    /\ x = Quantity(0, 0)
    /\ y = Quantity(0, 0)
    /\ op = "init"
    /\ x0 = x
    /\ arg \in {[NoArg EXCEPT !.qs = l] : l \in ListsUpTo(ListInstances, MaxList)}
    /\ out = NoOut
    /\ NoTokenInstance

\* Quantity.sameDenomination(...arg.qs)
SameDenomination ==
    /\ op = "init"
    /\ op' = "sameDenomination"
    /\ out' = [NoOut EXCEPT !.qs = sameDenomination(arg.qs)]
    /\ UNCHANGED <<x, y, x0, arg>>
    /\ UNCHANGED tokenVars

\* Quantity.sameDenomination(...out.qs): the aligned list aligned again
SameDenominationAgain ==
    /\ op = "sameDenomination"
    /\ op' = "sameDenominationAgain"
    /\ arg' = [arg EXCEPT !.qs = out.qs]
    /\ out' = [NoOut EXCEPT !.qs = sameDenomination(out.qs)]
    /\ UNCHANGED <<x, y, x0>>
    /\ UNCHANGED tokenVars

\* Quantity.min(...arg.qs)
MinOf ==
    /\ op = "init"
    /\ op' = "min"
    /\ LET r == min(arg.qs)
       IN  out' = [NoOut EXCEPT !.q = r.v, !.undefined = r.undefined]
    /\ UNCHANGED <<x, y, x0, arg>>
    /\ UNCHANGED tokenVars

\* Quantity.max(...arg.qs)
MaxOf ==
    /\ op = "init"
    /\ op' = "max"
    /\ LET r == max(arg.qs)
       IN  out' = [NoOut EXCEPT !.q = r.v, !.undefined = r.undefined]
    /\ UNCHANGED <<x, y, x0, arg>>
    /\ UNCHANGED tokenVars

NextList == SameDenomination \/ SameDenominationAgain \/ MinOf \/ MaxOf

SpecList == InitList /\ [][NextList]_vars

(***************************************************************************)
(* One instance over a wider range of values: formatting, parsing the      *)
(* formatted string into a new instance y of the same denomination, and    *)
(* the conversions and roundings of the value.                             *)
(***************************************************************************)
InWideBounds == Abs(x.qty) <= MaxStrRaw /\ x.D <= MaxD

InitValue ==
    /\ x \in {Quantity(r, d) : r \in -MaxStrRaw..MaxStrRaw, d \in Denominations}
    /\ y = Quantity(0, 0)
    /\ op = "init"
    /\ x0 = x
    /\ arg = NoArg
    /\ out = NoOut
    /\ NoTokenInstance

\* x.toString()
ValueToString ==
    /\ InWideBounds
    /\ LET r == toString(x)
       IN  Static("toString", [NoOut EXCEPT !.err = r.err, !.s = r.s], NoArg)

\* new Quantity(undefined, x.denomination).fromString(s), s the string that
\* x.toString() returned; out.q is the instance fromString returns
ParseFormatted ==
    /\ op = "toString"
    /\ ~out.err
    /\ LET r == fromString(Quantity(0, x.D), out.s)
       IN  out' = [NoOut EXCEPT !.err = r.err, !.q = r.v]
    /\ op' = "parseFormatted"
    /\ arg' = [NoArg EXCEPT !.s = out.s]
    /\ UNCHANGED <<x, y, x0>>
    /\ UNCHANGED tokenVars

\* x.toLocaleString(undefined, { maximumFractionDigits, minimumFractionDigits })
\* with 0 <= minimumFractionDigits <= maximumFractionDigits; grouping is the
\* default of BigInt.prototype.toLocaleString
ValueToLocaleString ==
    \E maxFD \in 0..MaxD :
        \E minFD \in 0..maxFD :
            /\ InWideBounds
            /\ LET r == toLocaleString(x, Options(maxFD, minFD, TRUE))
               IN  Static("toLocaleString", [NoOut EXCEPT !.err = r.err, !.s = r.s],
                          [NoArg EXCEPT !.options = Options(maxFD, minFD, TRUE)])

\* x.integer and x.fractional
ValueParts ==
    /\ InWideBounds
    /\ Static("parts", [NoOut EXCEPT !.integer = integer(x), !.fractional = fractional(x)],
              NoArg)

\* Quantity.__mul(x, Quantity.__one(x.denomination)), and eq of the product and x
ValueMulOne ==
    /\ InWideBounds
    /\ LET r == __mul(x, __one(x.D))
       IN  Static("mulOne", [NoOut EXCEPT !.err = r.err, !.q = r.v, !.b = eq(r.v, x)], NoArg)

ValueConvert ==
    \E T \in 0..(MaxD + 1) :
        InWideBounds /\ InPlace("convert", Ok(_convert(x, T)), Ok(__convert(x, T)),
                                [NoArg EXCEPT !.n = T])

ValueTrunc == InWideBounds /\ InPlace("trunc", Ok(_trunc(x)), Ok(__trunc(x)), NoArg)

ValueFloor == InWideBounds /\ InPlace("floor", Ok(_floor(x)), Ok(__floor(x)), NoArg)

ValueCeil == InWideBounds /\ InPlace("ceil", Ok(_ceil(x)), Ok(__ceil(x)), NoArg)

NextValue ==
    \/ ValueToString \/ ParseFormatted \/ ValueToLocaleString
    \/ ValueParts \/ ValueMulOne
    \/ ValueConvert \/ ValueTrunc \/ ValueFloor \/ ValueCeil

SpecValue == InitValue /\ [][NextValue]_vars

(***************************************************************************)
(* Parsing: the input string is chosen at the start (arg.s), together with *)
(* the instance it is parsed into, and fromString is applied to it.        *)
(***************************************************************************)
Alphabet == {"0", "5", "-", ".", ",", "a"}

Strings == ListsUpTo(Alphabet, MaxLen)

\* inputs of the parse tests of the README, with the denomination of their instance
TestVectors ==
    { [s |-> <<"8", "5", "5", ".", "3", "1">>, D |-> 2],
      [s |-> <<"1", "2", ",", "4", "5", "6", ".", "5", "5">>, D |-> 2],
      [s |-> <<"1", "2", "4", "5", "6", ".", "0", "0", "0", "5", "5">>, D |-> 5],
      [s |-> <<"1", "2", "4", "5", "6", ".", "0", "0", "0", "0", "5", "5">>, D |-> 5],
      [s |-> <<"1", "4", "5", "6", "4", ".", "5", "2", "9", "9">>, D |-> 4] }

InitParse ==
    /\ \/ /\ x \in {Quantity(r, d) : r \in 0..MaxFresh, d \in Denominations}
          /\ arg \in {[NoArg EXCEPT !.s = s] : s \in Strings}
       \/ \E v \in TestVectors :
             /\ x = Quantity(0, v.D)
             /\ arg = [NoArg EXCEPT !.s = v.s]
    /\ y = Quantity(0, 0)
    /\ op = "init"
    /\ x0 = x
    /\ out = NoOut
    /\ NoTokenInstance

\* x.fromString(arg.s)
FromString ==
    /\ op = "init"
    /\ LET r == fromString(x, arg.s)
       IN  /\ x' = IF r.err THEN x ELSE r.v
           /\ out' = [NoOut EXCEPT !.err = r.err]
    /\ x0' = x
    /\ op' = "fromString"
    /\ UNCHANGED <<y, arg>>
    /\ UNCHANGED tokenVars

\* x.toString() of the parsed instance
ParsedToString ==
    /\ op = "fromString"
    /\ ~out.err
    /\ LET r == toString(x)
       IN  out' = [NoOut EXCEPT !.err = r.err, !.s = r.s]
    /\ op' = "toString"
    /\ UNCHANGED <<x, y, x0, arg>>
    /\ UNCHANGED tokenVars

NextParse == FromString \/ ParsedToString

SpecParse == InitParse /\ [][NextParse]_vars

(***************************************************************************)
(* Instances as objects.  A heap is a sequence of instances and a          *)
(* reference is an index into it: "new Quantity(...)" appends a cell, an   *)
(* assignment to this.#qty or this.#D replaces a field of one cell.  A     *)
(* call returns the heap after it, the reference it returns (0: none, a    *)
(* boolean or an array) and whether it threw.  The values are those of the *)
(* operators above.                                                        *)
(***************************************************************************)
Returned(h, r) == [h |-> h, r |-> r, err |-> FALSE]

Raised(h) == [h |-> h, r |-> 0, err |-> TRUE]

\* new Quantity(base, denomination)
New(h, q) == Returned(Append(h, q), Len(h) + 1)

\* return new Quantity(...) of an expression that may throw
NewResult(h, res) == IF res.err THEN Raised(h) ELSE New(h, res.v)

\* target.#qty = qty
SetQty(h, target, qty) == [h EXCEPT ![target] = Quantity(qty, h[target].D)]

\* clone()
clone_obj(h, this) == New(h, Quantity(h[this].qty, h[this].D))

\* static __one(denomination)
__one_obj(h, denomination) == New(h, __one(denomination))

\* _one()
_one_obj(h, this) == Returned(SetQty(h, this, BigIntPow(10, h[this].D)), this)

\* static __convert(instance, newDenomination)
__convert_obj(h, instance, newDenomination) ==
    New(h, __convert(h[instance], newDenomination))

\* _convert(newDenomination)
_convert_obj(h, this, newDenomination) ==
    LET newInst == __convert_obj(h, this, newDenomination)
    IN  Returned([newInst.h EXCEPT
                     ![this] = Quantity(newInst.h[newInst.r].qty, newDenomination)],
                 this)

\* the denomination parameter when the caller gives none: "denomination = 0n"
DefaultDenomination == 0

\* new Quantity(base, denomination) with an instance as base (case "object"):
\*   base = base.clone(); base._convert(this.#D); this.#qty = base.#qty
constructor_obj(h, base, denomination) ==
    LET cloned == clone_obj(h, base)
        converted == _convert_obj(cloned.h, cloned.r, denomination)
    IN  New(converted.h, Quantity(converted.h[converted.r].qty, denomination))

RECURSIVE Adjust(_, _, _, _)
\* the loop of sameDenomination: quantities[i] = Quantity.__convert(...) puts
\* a new instance into the array, the others stay the instances passed in
Adjust(h, quantities, i, largestDenomination) ==
    IF i > Len(quantities) THEN [h |-> h, rs |-> quantities]
    ELSE IF h[quantities[i]].D = largestDenomination
    THEN Adjust(h, quantities, i + 1, largestDenomination)
    ELSE LET c == __convert_obj(h, quantities[i], largestDenomination)
         IN  Adjust(c.h, [quantities EXCEPT ![i] = c.r], i + 1, largestDenomination)

\* static sameDenomination(...quantities), on the array of references
sameDenomination_obj(h, quantities) ==
    IF Len(quantities) < 1 THEN [h |-> h, rs |-> quantities]
    ELSE Adjust(h, quantities, 1,
                LargestDenomination([i \in 1..Len(quantities) |-> h[quantities[i]]]))

\* static eq(x, y), lt(x, y), le(x, y): the heap after the call and the boolean
eq_obj(h, a, b) ==
    LET s == sameDenomination_obj(h, <<a, b>>)
    IN  [h |-> s.h, b |-> eq(s.h[s.rs[1]], s.h[s.rs[2]])]

lt_obj(h, a, b) ==
    LET s == sameDenomination_obj(h, <<a, b>>)
    IN  [h |-> s.h, b |-> lt(s.h[s.rs[1]], s.h[s.rs[2]])]

le_obj(h, a, b) ==
    LET s == sameDenomination_obj(h, <<a, b>>)
    IN  [h |-> s.h, b |-> le(s.h[s.rs[1]], s.h[s.rs[2]])]

\* static __add(x, y)
__add_obj(h, a, b) ==
    LET s == sameDenomination_obj(h, <<a, b>>)
    IN  NewResult(s.h, __add(s.h[s.rs[1]], s.h[s.rs[2]]))

\* static __sub(x, y)
__sub_obj(h, a, b) ==
    LET s == sameDenomination_obj(h, <<a, b>>)
    IN  NewResult(s.h, __sub(s.h[s.rs[1]], s.h[s.rs[2]]))

\* static __mul(x, y)
__mul_obj(h, a, b) ==
    LET s == sameDenomination_obj(h, <<a, b>>)
    IN  NewResult(s.h, __mul(s.h[s.rs[1]], s.h[s.rs[2]]))

\* static __div(x, y)
__div_obj(h, a, b) ==
    LET s == sameDenomination_obj(h, <<a, b>>)
    IN  NewResult(s.h, __div(s.h[s.rs[1]], s.h[s.rs[2]]))

\* static __mod(x, y)
__mod_obj(h, a, b) ==
    LET s == sameDenomination_obj(h, <<a, b>>)
    IN  NewResult(s.h, __mod(s.h[s.rs[1]], s.h[s.rs[2]]))

\* an in-place tail that takes the static result as it is, denomination too
StoreAligned_obj(this, res) ==
    IF res.err THEN Raised(res.h)
    ELSE Returned([res.h EXCEPT ![this] = res.h[res.r]], 0)

\* the tail of every in-place binary operator, on the outcome res of the
\* static call:
\*   const res = Quantity.__convert(<static result>, this.#D); this.#qty = res.#qty
StoreConverted_obj(this, res) ==
    IF res.err THEN Raised(res.h)
    ELSE LET c == __convert_obj(res.h, res.r, res.h[this].D)
         IN  Returned(SetQty(c.h, this, c.h[c.r].qty), 0)

\* _add(y), _sub(y), _mul(y), _div(y), _mod(y)
_add_obj(h, this, b) == StoreConverted_obj(this, __add_obj(h, this, b))

_sub_obj(h, this, b) == StoreConverted_obj(this, __sub_obj(h, this, b))

_mul_obj(h, this, b) == StoreConverted_obj(this, __mul_obj(h, this, b))

_div_obj(h, this, b) == StoreConverted_obj(this, __div_obj(h, this, b))

_mod_obj(h, this, b) == StoreConverted_obj(this, __mod_obj(h, this, b))

RECURSIVE MulLoop_obj(_, _, _, _)
\* res._mul(x), n times
MulLoop_obj(h, res, a, n) ==
    IF n <= 0 THEN h ELSE MulLoop_obj(_mul_obj(h, res, a).h, res, a, n - 1)

\* integer power branch of __pow: positivePower and result are new instances
PowBigInt_obj(h, a, n) == NewResult(h, PowBigInt(h[a], n))

\* Quantity exponent branch of __pow: res = x.clone() takes the products
PowQuantity_obj(h, a, b) ==
    LET s == sameDenomination_obj(h, <<a, b>>)
        str == toString(s.h[s.rs[2]])
        num == ToNumber(str.s)
        res == clone_obj(s.h, s.rs[1])
        looped == MulLoop_obj(res.h, res.r, s.rs[1], LoopCount(num))
    IN  IF str.err THEN Raised(s.h)
        ELSE IF num.neg
        THEN LET one == __one_obj(looped, looped[res.r].D)
             IN  __div_obj(one.h, one.r, res.r)
        ELSE Returned(looped, res.r)

\* static __pow(x, y): y the bigint e.n, or the instance b
__pow_obj(h, a, e, b) ==
    IF (e.big /\ e.n = 0) \/ (~e.big /\ eq(h[b], Quantity(0, h[b].D)))
    THEN __one_obj(h, h[a].D)
    ELSE IF e.big THEN PowBigInt_obj(h, a, e.n)
    ELSE PowQuantity_obj(h, a, b)

\* _pow(y)
_pow_obj(h, this, e, b) == StoreConverted_obj(this, __pow_obj(h, this, e, b))

RECURSIVE Reduce(_, _, _, _, _)
\* quantities.reduce((prev, curr) => { const [a, b] = sameDenomination(prev,
\* curr); return lt(a, b) ? <prev or curr> : <the other> }): keepPrev says
\* which of the two a true lt keeps
Reduce(h, quantities, prev, i, keepPrev) ==
    IF i > Len(quantities) THEN Returned(h, prev)
    ELSE LET s == sameDenomination_obj(h, <<prev, quantities[i]>>)
             c == lt_obj(s.h, s.rs[1], s.rs[2])
         IN  Reduce(c.h, quantities,
                    IF c.b = keepPrev THEN prev ELSE quantities[i], i + 1, keepPrev)

\* static min(...quantities)
min_obj(h, quantities) ==
    IF Len(quantities) = 0 THEN Returned(h, 0)
    ELSE Reduce(h, quantities, quantities[1], 2, TRUE)

\* static max(...quantities)
max_obj(h, quantities) ==
    IF Len(quantities) = 0 THEN Returned(h, 0)
    ELSE Reduce(h, quantities, quantities[1], 2, FALSE)

\* static __trunc(x)
__trunc_obj(h, a) == New(h, __trunc(h[a]))

\* _trunc()
_trunc_obj(h, this) ==
    LET res == __trunc_obj(h, this)
    IN  Returned(SetQty(res.h, this, res.h[res.r].qty), 0)

\* a __floor that subtracts from its argument instead of from res
__floor_shared(h, a) ==
    LET res == __trunc_obj(h, a)
    IN  IF res.h[a].qty < 0
        THEN Returned(SetQty(res.h, a, res.h[a].qty - BigIntPow(10, res.h[a].D)), res.r)
        ELSE res

\* static __floor(x): res.#qty -= 10n ** x.#D on the new instance res
__floor_obj(h, a) ==
    LET res == __trunc_obj(h, a)
    IN  IF res.h[a].qty < 0
        THEN Returned(SetQty(res.h, res.r,
                             res.h[res.r].qty - BigIntPow(10, res.h[a].D)), res.r)
        ELSE res

\* _floor()
_floor_obj(h, this) ==
    LET res == __floor_obj(h, this)
    IN  Returned(SetQty(res.h, this, res.h[res.r].qty), 0)

\* static __ceil(x): res.#qty += 10n ** x.#D on the new instance res
__ceil_obj(h, a) ==
    LET res == __trunc_obj(h, a)
    IN  IF res.h[a].qty > 0
        THEN Returned(SetQty(res.h, res.r,
                             res.h[res.r].qty + BigIntPow(10, res.h[a].D)), res.r)
        ELSE res

\* _ceil()
_ceil_obj(h, this) ==
    LET res == __ceil_obj(h, this)
    IN  Returned(SetQty(res.h, this, res.h[res.r].qty), 0)

\* static __neg(x)
__neg_obj(h, a) == New(h, __neg(h[a]))

\* _neg()
_neg_obj(h, this) == Returned(SetQty(h, this, -h[this].qty), 0)

\* static __abs(x): res = x.clone(), negated when x is negative
__abs_obj(h, a) ==
    LET res == clone_obj(h, a)
    IN  IF res.h[a].qty < 0
        THEN Returned(SetQty(res.h, res.r, -res.h[res.r].qty), res.r)
        ELSE res

\* _abs()
_abs_obj(h, this) ==
    IF h[this].qty >= 0 THEN Returned(h, 0)
    ELSE Returned(SetQty(h, this, -h[this].qty), 0)

\* fromString(value): this.#qty is written by the last statement only
fromString_obj(h, this, value) ==
    LET r == fromString(h[this], value)
    IN  IF r.err THEN Raised(h) ELSE Returned(SetQty(h, this, r.v.qty), this)

\* a number n / 10^k with k fractional digits
Number(n, k) == [n |-> n, k |-> k]

\* Number.prototype.toString() of such a number (between 1e-6 and 1e21 in
\* magnitude): sign, integer digits and, for k > 0, "." and the k digits
NumberToString(value) ==
    LET p == BigIntPow(10, value.k)
        whole == Abs(value.n) \div p
        frac == Abs(value.n) % p
    IN  (IF value.n < 0 THEN <<"-">> ELSE <<>>) \o NatToString(whole)
        \o (IF value.k = 0 THEN <<>> ELSE <<".">> \o PadStart(NatToString(frac), value.k, "0"))

\* fromNumber(value)
fromNumber_obj(h, this, value) == fromString_obj(h, this, NumberToString(value))

(***************************************************************************)
(* The calls of the class on two objects: the heap holds the receiver x    *)
(* (reference 1) and the operand y (reference 2); after the call x and y   *)
(* are what these two cells hold.                                          *)
(***************************************************************************)
MaxObjRaw == 2      \* |raw| of the two objects the calls are made on

MaxObjD == 1        \* largest denomination of the two objects

RefX == 1

RefY == 2

StaticNames ==
    {"__convert", "sameDenomination", "eq", "lt", "le", "__add", "__sub", "__mul",
     "__div", "__pow", "__mod", "min", "max", "__trunc", "__floor", "__ceil",
     "__neg", "__abs", "clone"}

InPlaceNames ==
    {"_convert", "_one", "_add", "_sub", "_mul", "_div", "_pow", "_mod", "_trunc",
     "_floor", "_ceil", "_neg", "_abs", "fromString", "fromNumber"}

\* new Quantity(x) and new Quantity(x, T)
ConstructorNames == {"new Quantity(q)", "new Quantity(q, T)"}

\* strings given to fromString and numbers given to fromNumber
ShortInputs == {<<>>, <<"5">>, <<".", "5">>, <<"a">>}

Numbers == {Number(5, 0), Number(-5, 1), Number(15, 1)}

\* a call: the method, its bigint argument n (a denomination or, with big, an
\* exponent), its string argument s or its number argument v
CallOf(name, big, n, s, v) == [name |-> name, big |-> big, n |-> n, s |-> s, v |-> v]

Calls ==
    {CallOf(name, FALSE, 0, <<>>, Number(0, 0)) :
        name \in (StaticNames \cup InPlaceNames)
                     \ {"__convert", "_convert", "fromString", "fromNumber"}}
    \cup {CallOf(name, FALSE, T, <<>>, Number(0, 0)) :
            name \in {"__convert", "_convert"}, T \in 0..(MaxObjD + 1)}
    \cup {CallOf(name, TRUE, n, <<>>, Number(0, 0)) :
            name \in {"__pow", "_pow"}, n \in -MaxExp..MaxExp}
    \cup {CallOf("new Quantity(q)", FALSE, DefaultDenomination, <<>>, Number(0, 0))}
    \cup {CallOf("new Quantity(q, T)", FALSE, T, <<>>, Number(0, 0)) : T \in 0..MaxObjD}
    \cup {CallOf("fromString", FALSE, 0, s, Number(0, 0)) : s \in ShortInputs}
    \cup {CallOf("fromNumber", FALSE, 0, <<>>, v) : v \in Numbers}

\* the call c with the receiver or first argument a and the operand b
Dispatch(c, h, a, b) ==
    CASE c.name = "clone" -> clone_obj(h, a)
      [] c.name = "__convert" -> __convert_obj(h, a, c.n)
      [] c.name = "_convert" -> _convert_obj(h, a, c.n)
      [] c.name = "sameDenomination" -> Returned(sameDenomination_obj(h, <<a, b>>).h, 0)
      [] c.name = "eq" -> Returned(eq_obj(h, a, b).h, 0)
      [] c.name = "lt" -> Returned(lt_obj(h, a, b).h, 0)
      [] c.name = "le" -> Returned(le_obj(h, a, b).h, 0)
      [] c.name = "min" -> min_obj(h, <<a, b>>)
      [] c.name = "max" -> max_obj(h, <<a, b>>)
      [] c.name = "__add" -> __add_obj(h, a, b)
      [] c.name = "_add" -> _add_obj(h, a, b)
      [] c.name = "__sub" -> __sub_obj(h, a, b)
      [] c.name = "_sub" -> _sub_obj(h, a, b)
      [] c.name = "__mul" -> __mul_obj(h, a, b)
      [] c.name = "_mul" -> _mul_obj(h, a, b)
      [] c.name = "__div" -> __div_obj(h, a, b)
      [] c.name = "_div" -> _div_obj(h, a, b)
      [] c.name = "__mod" -> __mod_obj(h, a, b)
      [] c.name = "_mod" -> _mod_obj(h, a, b)
      [] c.name = "__pow" -> __pow_obj(h, a, c, b)
      [] c.name = "_pow" -> _pow_obj(h, a, c, b)
      [] c.name = "_one" -> _one_obj(h, a)
      [] c.name = "__trunc" -> __trunc_obj(h, a)
      [] c.name = "_trunc" -> _trunc_obj(h, a)
      [] c.name = "__floor" -> __floor_obj(h, a)
      [] c.name = "_floor" -> _floor_obj(h, a)
      [] c.name = "__ceil" -> __ceil_obj(h, a)
      [] c.name = "_ceil" -> _ceil_obj(h, a)
      [] c.name = "__neg" -> __neg_obj(h, a)
      [] c.name = "_neg" -> _neg_obj(h, a)
      [] c.name = "__abs" -> __abs_obj(h, a)
      [] c.name = "_abs" -> _abs_obj(h, a)
      [] c.name = "fromString" -> fromString_obj(h, a, c.s)
      [] c.name = "fromNumber" -> fromNumber_obj(h, a, c.v)
      [] c.name \in ConstructorNames -> constructor_obj(h, a, c.n)

ObjectInstances == {Quantity(r, d) : r \in -MaxObjRaw..MaxObjRaw, d \in 0..MaxObjD}

InitObjects ==
    /\ x \in ObjectInstances
    /\ y \in ObjectInstances
    /\ op = "init"
    /\ x0 = x
    /\ arg = NoArg
    /\ out = NoOut
    /\ NoTokenInstance

\* calls are made while both instances are within the bounds of the model
InObjectBounds ==
    /\ Abs(x.qty) <= MaxObjRaw /\ x.D <= MaxObjD
    /\ Abs(y.qty) <= MaxObjRaw /\ y.D <= MaxObjD

\* the call c made on x and y: out.q is the instance returned, out.b says
\* that it is one of the two instances passed in
Invoke(c) ==
    \E r \in {Dispatch(c, <<x, y>>, RefX, RefY)} :
        /\ x' = r.h[RefX]
        /\ y' = r.h[RefY]
        /\ x0' = x
        /\ op' = c.name
        /\ arg' = [NoArg EXCEPT !.n = c.n, !.big = c.big,
                                !.s = IF c.name = "fromNumber" THEN NumberToString(c.v)
                                      ELSE c.s]
        /\ out' = [NoOut EXCEPT !.err = r.err,
                                !.q = IF r.r = 0 THEN Quantity(0, 0) ELSE r.h[r.r],
                                !.b = r.r \in {RefX, RefY}]
        /\ UNCHANGED tokenVars

\* a static operator or clone
StaticCall == \E c \in Calls : c.name \in StaticNames /\ InObjectBounds /\ Invoke(c)

\* an in-place operator or a parse
InPlaceCall == \E c \in Calls : c.name \in InPlaceNames /\ InObjectBounds /\ Invoke(c)

\* a construction from the instance x
ConstructorCall ==
    \E c \in Calls : c.name \in ConstructorNames /\ InObjectBounds /\ Invoke(c)

NextObjects == StaticCall \/ InPlaceCall \/ ConstructorCall

SpecObjects == InitObjects /\ [][NextObjects]_vars

(***************************************************************************)
(* The token process client (src/src/Token.ts, src/src/utils.ts).  A       *)
(* JavaScript value is a record [type, s, q, instanceofQuantity]: typeof,  *)
(* the characters of a string, the fields of a Quantity instance.  An      *)
(* absent string (undefined) is <<>>: the code only tests such values for  *)
(* truthiness, which "" and undefined fail alike.                          *)
(***************************************************************************)
StringValue(s) ==
    [type |-> "string", s |-> s, q |-> Quantity(0, 0), instanceofQuantity |-> FALSE]

QuantityValue(q) ==
    [type |-> "object", s |-> <<>>, q |-> q, instanceofQuantity |-> TRUE]

\* a value of some other kind: {} and null ("object"), undefined, 5n, 5
OtherValue(type) ==
    [type |-> type, s |-> <<>>, q |-> Quantity(0, 0), instanceofQuantity |-> FALSE]

\* typeof val === "object" && val instanceof Quantity
isQuantity(val) == val.type = "object" /\ val.instanceofQuantity

isQuantityOf_inverted(val, t) ==
    IF isQuantity(val) THEN FALSE ELSE t.info.Denomination = val.q.D

\* Quantity.isQuantityOf(val, token)
isQuantityOf(val, t) ==
    IF ~isQuantity(val) THEN FALSE ELSE t.info.Denomination = val.q.D

\* the quantifier {43} of the pattern of isAddress
AddressLength == 43

\* the class [a-z0-9_-] under the flag i
AddressChars ==
    { "a", "b", "c", "d", "e", "f", "g", "h", "i", "j", "k", "l", "m",
      "n", "o", "p", "q", "r", "s", "t", "u", "v", "w", "x", "y", "z",
      "A", "B", "C", "D", "E", "F", "G", "H", "I", "J", "K", "L", "M",
      "N", "O", "P", "Q", "R", "S", "T", "U", "V", "W", "X", "Y", "Z",
      "0", "1", "2", "3", "4", "5", "6", "7", "8", "9", "_", "-" }

\* /[a-z0-9_-]{43}/i.test(s): the pattern is not anchored, so it matches a
\* run of 43 such characters anywhere in s
PatternTest(s) ==
    \E i \in 1..(Len(s) - AddressLength + 1) :
        \A j \in i..(i + AddressLength - 1) : s[j] \in AddressChars

\* isAddress(val)
isAddress(val) == IF val.type # "string" THEN FALSE ELSE PatternTest(val.s)

get_Quantity_shared(h, t) ==
    IF h = <<>> THEN New(h, Quantity(0, t.info.Denomination)) ELSE Returned(h, 1)

\* get Quantity(): new Quantity(0n, this.info.Denomination)
get_Quantity_obj(h, t) == New(h, Quantity(0, t.info.Denomination))

\* a tag of a message
Tag(name, value) == [name |-> name, value |-> value]

\* a message returned by dryrun
Message(Target, Data, Tags) == [Target |-> Target, Data |-> Data, Tags |-> Tags]

RECURSIVE getTagValue(_, _)
\* getTagValue(tagName, tags): tags.find((t) => t.name === tagName)?.value
getTagValue(tagName, tags) ==
    IF tags = <<>> THEN <<>>
    ELSE IF Head(tags).name = tagName THEN Head(tags).value
    ELSE getTagValue(tagName, Tail(tags))

RECURSIVE getBalance(_, _)
\* getBalance(address) on the messages the dryrun returned: the first
\* message with a balance decides, BigInt(balance) may throw
getBalance(t, Messages) ==
    IF Messages = <<>> THEN Ok(Quantity(0, t.info.Denomination))
    ELSE LET msg == Head(Messages)
             balance == IF t.info.Mirror # <<>> THEN msg.Data
                        ELSE getTagValue("Balance", msg.Tags)
             parsed == StringToBigInt(balance)
         IN  IF balance # <<>>
             THEN IF parsed.err THEN Thrown
                  ELSE Ok(Quantity(parsed.n, t.info.Denomination))
             ELSE getBalance(t, Tail(Messages))

\* the message transfer hands to ao.message()
TransferMessage(t, quantity, recipient) ==
    [ process |-> t.id,
      signer |-> t.signer,
      tags |-> << Tag("Action", <<"T", "r", "a", "n", "s", "f", "e", "r">>),
                  Tag("Recipient", recipient.s),
                  Tag("Quantity", BigIntToString(quantity.q.qty)) >> ]

transfer_formatted(t, messages, quantity, recipient) ==
    IF ~isAddress(recipient) \/ ~isQuantityOf(quantity, t)
    THEN [err |-> TRUE, sent |-> messages]
    ELSE [err |-> FALSE,
          sent |-> Append(messages,
                          [TransferMessage(t, quantity, recipient) EXCEPT
                               !.tags[3] = Tag("Quantity", toString(quantity.q).s)])]

\* transfer(quantity, recipient); messages are those handed to ao.message()
\* so far
transfer(t, messages, quantity, recipient) ==
    IF ~isAddress(recipient) THEN [err |-> TRUE, sent |-> messages]
    ELSE IF ~isQuantityOf(quantity, t) THEN [err |-> TRUE, sent |-> messages]
    ELSE [err |-> FALSE, sent |-> Append(messages, TransferMessage(t, quantity, recipient))]

(***************************************************************************)
(* JSON.parse over the characters { } " : , . - 0..9 and letters: objects, *)
(* strings without escapes and numbers without exponent.  A parsed value   *)
(* is [type, s, n, k, members]: a string s, the number n / 10^k, or the    *)
(* members [key, value] of an object in the order of for-in (the order of  *)
(* first appearance, the keys of the inputs not being array indexes).      *)
(***************************************************************************)
JsonString(s) == [type |-> "string", s |-> s, n |-> 0, k |-> 0, members |-> <<>>]

JsonNumber(n, k) == [type |-> "number", s |-> <<>>, n |-> n, k |-> k, members |-> <<>>]

JsonObject(members) == [type |-> "object", s |-> <<>>, n |-> 0, k |-> 0, members |-> members]

\* a value parsed up to, not including, position next
Parsed(v, next) == [ok |-> TRUE, v |-> v, next |-> next]

SyntaxError == [ok |-> FALSE, v |-> JsonNumber(0, 0), next |-> 0]

CharAt(s, i) == IF i >= 1 /\ i <= Len(s) THEN s[i] ELSE ""

RECURSIVE ClosingQuote(_, _)
\* position of the first quote at or after i, 0 if there is none
ClosingQuote(s, i) ==
    IF i > Len(s) THEN 0 ELSE IF s[i] = "\"" THEN i ELSE ClosingQuote(s, i + 1)

RECURSIVE DigitRunEnd(_, _)
\* position after the run of digits that starts at i
DigitRunEnd(s, i) == IF IsDigit(CharAt(s, i)) THEN DigitRunEnd(s, i + 1) ELSE i

\* a string literal whose opening quote is at i
ParseString(s, i) ==
    LET close == ClosingQuote(s, i + 1)
    IN  IF close = 0 THEN SyntaxError
        ELSE Parsed(JsonString(SubSeq(s, i + 1, close - 1)), close + 1)

\* a number at i: -? (0 | [1-9][0-9]*) (. [0-9]+)?
ParseNumber(s, i) ==
    LET negative == CharAt(s, i) = "-"
        first == IF negative THEN i + 1 ELSE i
        intEnd == IF CharAt(s, first) = "0" THEN first + 1 ELSE DigitRunEnd(s, first)
        hasFraction == CharAt(s, intEnd) = "."
        fracEnd == IF hasFraction THEN DigitRunEnd(s, intEnd + 1) ELSE intEnd
        digits == SubSeq(s, first, intEnd - 1)
                  \o (IF hasFraction THEN SubSeq(s, intEnd + 1, fracEnd - 1) ELSE <<>>)
        magnitude == DigitsToNat(digits)
    IN  IF intEnd = first \/ (hasFraction /\ fracEnd = intEnd + 1) THEN SyntaxError
        ELSE Parsed(JsonNumber(IF negative THEN -magnitude ELSE magnitude,
                               IF hasFraction THEN fracEnd - intEnd - 1 ELSE 0),
                    fracEnd)

RECURSIVE PutMember(_, _, _)
\* a member of an object: a repeated key keeps its place and takes the
\* later value
PutMember(members, key, value) ==
    IF members = <<>> THEN <<[key |-> key, value |-> value]>>
    ELSE IF Head(members).key = key
         THEN <<[key |-> key, value |-> value]>> \o Tail(members)
         ELSE <<Head(members)>> \o PutMember(Tail(members), key, value)

RECURSIVE ParseValue(_, _)
RECURSIVE ParseMembers(_, _, _)
\* the members of an object from position i, after "{" or ","
ParseMembers(s, i, members) ==
    IF CharAt(s, i) # "\"" THEN SyntaxError
    ELSE LET key == ParseString(s, i)
             value == ParseValue(s, key.next + 1)
             after == PutMember(members, key.v.s, value.v)
         IN  IF ~key.ok \/ CharAt(s, key.next) # ":" THEN SyntaxError
             ELSE IF ~value.ok THEN SyntaxError
             ELSE IF CharAt(s, value.next) = "," THEN ParseMembers(s, value.next + 1, after)
             ELSE IF CharAt(s, value.next) = "}" THEN Parsed(JsonObject(after), value.next + 1)
             ELSE SyntaxError

\* the value that starts at position i
ParseValue(s, i) ==
    LET c == CharAt(s, i)
    IN  IF c = "\"" THEN ParseString(s, i)
        ELSE IF c = "-" \/ IsDigit(c) THEN ParseNumber(s, i)
        ELSE IF c = "{"
             THEN IF CharAt(s, i + 1) = "}" THEN Parsed(JsonObject(<<>>), i + 2)
                  ELSE ParseMembers(s, i + 1, <<>>)
        ELSE SyntaxError

\* JSON.parse(text): the whole text is one value
JSONParse(text) ==
    LET r == ParseValue(text, 1)
    IN  IF r.ok /\ r.next = Len(text) + 1 THEN r ELSE SyntaxError

\* what "for (const addr in raw)" visits with raw[addr]: the members of an
\* object, the characters of a string by index, nothing for a number
ForIn(raw) ==
    IF raw.type = "object" THEN raw.members
    ELSE IF raw.type = "string"
         THEN [i \in 1..Len(raw.s) |->
                  [key |-> NatToString(i - 1), value |-> JsonString(<<raw.s[i]>>)]]
    ELSE <<>>

\* BigInt(value): a string is parsed, a number must be an integer, an
\* object ("[object Object]") is a SyntaxError
ToBigInt(value) ==
    IF value.type = "string" THEN StringToBigInt(value.s)
    ELSE IF value.type = "number"
         THEN LET p == BigIntPow(10, value.k)
              IN  IF value.n % p = 0 THEN [err |-> FALSE, n |-> BigIntDiv(value.n, p)]
                  ELSE [err |-> TRUE, n |-> 0]
    ELSE [err |-> TRUE, n |-> 0]

\* the dummy owner of utils.ts
Owner == Repeat("0", AddressLength - 1) \o <<"2">>

\* bals[addr] = q
PutBalance(bals, addr, q) ==
    [a \in (DOMAIN bals) \cup {addr} |-> IF a = addr THEN q ELSE bals[a]]

RECURSIVE StoreBalances(_, _, _)
\* the loop over raw inside try: a BigInt that throws ends it, and the
\* entries stored before it stay
StoreBalances(bals, entries, Denomination) ==
    IF entries = <<>> THEN bals
    ELSE LET n == ToBigInt(Head(entries).value)
         IN  IF n.err THEN bals
             ELSE StoreBalances(PutBalance(bals, Head(entries).key,
                                           Quantity(n.n, Denomination)),
                                Tail(entries), Denomination)

RECURSIVE CollectBalances(_, _, _)
\* the loop of getBalances over the messages
CollectBalances(t, Messages, bals) ==
    IF Messages = <<>> THEN bals
    ELSE LET msg == Head(Messages)
             raw == JSONParse(msg.Data)
         IN  IF msg.Target # Owner \/ msg.Data = <<>>
             THEN CollectBalances(t, Tail(Messages), bals)
             ELSE IF ~raw.ok THEN CollectBalances(t, Tail(Messages), bals)
             ELSE CollectBalances(t, Tail(Messages),
                                  StoreBalances(bals, ForIn(raw.v), t.info.Denomination))

\* getBalances() on the messages the dryrun returned
getBalances(t, Messages) == CollectBalances(t, Messages, <<>>)

(***************************************************************************)
(* The token process client as a state machine: one TokenInstance, the     *)
(* instances read from its Quantity getter (heap), and the messages handed *)
(* to ao.message() (sent).  What the process answers to a dryrun is an     *)
(* input of the call.                                                      *)
(***************************************************************************)
MaxTokenD == 1      \* largest Denomination of the token
MaxInstances == 2   \* instances read from token.Quantity
MaxSent == 1        \* messages handed to ao.message()

ProcessId == Repeat("p", AddressLength)

MirrorId == Repeat("m", AddressLength)

\* new TokenInstance(id, info, signer, ao), with and without a Balance-Mirror
Tokens ==
    {[id |-> ProcessId, info |-> [Denomination |-> d, Mirror |-> m], signer |-> "signer"] :
        d \in 0..MaxTokenD, m \in {<<>>, MirrorId}}

\* recipients: an address, an address inside a longer string, a string one
\* character short, a string with a character outside the class, undefined
Recipients ==
    { StringValue(Repeat("a", AddressLength)),
      StringValue(<<"!">> \o Repeat("Z", AddressLength)),
      StringValue(Repeat("a", AddressLength - 1)),
      StringValue(Repeat("a", AddressLength - 1) \o <<"!">>),
      OtherValue("undefined") }

\* values that are not instances of this token: an instance of the next
\* denomination, {} and "5"
ForeignValues ==
    { QuantityValue(Quantity(150, token.info.Denomination + 1)),
      OtherValue("object"), StringValue(<<"5">>) }

\* the instances read from the token and the foreign values
Values == {QuantityValue(heap[r]) : r \in 1..Len(heap)} \cup ForeignValues

BalanceTag(value) == <<Tag("Action", <<"B">>), Tag("Balance", value)>>

\* answers to the dryrun of getBalance: the process is silent, fails, or
\* returns messages whose Data or Balance tag is empty, a number or neither
BalanceResults ==
    { [rejected |-> TRUE, Messages |-> <<>>],
      [rejected |-> FALSE, Messages |-> <<>>],
      [rejected |-> FALSE, Messages |-> <<Message(Owner, <<"7">>, BalanceTag(<<"2", "5">>))>>],
      [rejected |-> FALSE, Messages |-> <<Message(Owner, <<>>, <<>>)>>],
      [rejected |-> FALSE,
       Messages |-> <<Message(Owner, <<>>, BalanceTag(<<>>)),
                      Message(Owner, <<"-", "3">>, BalanceTag(<<"0">>))>>],
      [rejected |-> FALSE,
       Messages |-> <<Message(Owner, <<"1", ".", "5">>, BalanceTag(<<"a">>)),
                      Message(Owner, <<"7">>, BalanceTag(<<"7">>))>>] }

Entry(addr, value) == <<"\"", addr, "\"", ":">> \o value

\* answers to the dryrun of getBalances: Data that is a JSON object of
\* balances, one with a value BigInt refuses, text that is no JSON, a JSON
\* string, and a message for another target
BalancesResults ==
    LET good == <<"{">> \o Entry("a", <<"\"", "1", "2", "\"">>) \o <<",">>
                \o Entry("b", <<"5">>) \o <<"}">>
        partial == <<"{">> \o Entry("c", <<"3">>) \o <<",">>
                   \o Entry("a", <<"1", ".", "5">>) \o <<",">>
                   \o Entry("b", <<"9">>) \o <<"}">>
    IN  { [rejected |-> TRUE, Messages |-> <<>>],
          [rejected |-> FALSE, Messages |-> <<>>],
          [rejected |-> FALSE, Messages |-> <<Message(Owner, good, <<>>)>>],
          [rejected |-> FALSE,
           Messages |-> <<Message(Owner, partial, <<>>), Message(Owner, good, <<>>)>>],
          [rejected |-> FALSE,
           Messages |-> <<Message(Owner, good, <<>>), Message(Owner, partial, <<>>)>>],
          [rejected |-> FALSE,
           Messages |-> <<Message(ProcessId, good, <<>>), Message(Owner, <<>>, <<>>)>>],
          [rejected |-> FALSE,
           Messages |-> <<Message(Owner, <<"{">>, <<>>),
                          Message(Owner, <<"\"", "4", "\"">>, <<>>)>>] }

\* strings and numbers the instances are filled from
FillStrings == {<<"1", ".", "5">>}

FillNumbers == {Number(15, 1)}

NoTokenArg ==
    [ quantity |-> OtherValue("undefined"), recipient |-> OtherValue("undefined"),
      ref |-> 0, s |-> <<>>, res |-> [rejected |-> FALSE, Messages |-> <<>>] ]

NoTokenOut ==
    [err |-> FALSE, q |-> Quantity(0, 0), ref |-> 0, b |-> FALSE, bals |-> <<>>]

InitToken ==
    /\ x = Quantity(0, 0)
    /\ y = Quantity(0, 0)
    /\ op = "init"
    /\ x0 = x
    /\ arg = NoTokenArg
    /\ out = NoTokenOut
    /\ token \in Tokens
    /\ heap = <<>>
    /\ sent = <<>>

\* a read of token.Quantity
ReadQuantity ==
    /\ Len(heap) < MaxInstances
    /\ \E r \in {get_Quantity_obj(heap, token)} :
          /\ heap' = r.h
          /\ out' = [NoTokenOut EXCEPT !.ref = r.r, !.q = r.h[r.r]]
    /\ op' = "Quantity"
    /\ arg' = NoTokenArg
    /\ UNCHANGED <<x, y, x0, token, sent>>

\* the call name(s) on the instance ref, parsing the string s
Fill(name, ref, s, r) ==
    /\ heap' = r.h
    /\ op' = name
    /\ arg' = [NoTokenArg EXCEPT !.ref = ref, !.s = s]
    /\ out' = [NoTokenOut EXCEPT !.err = r.err, !.ref = r.r,
                                 !.q = IF r.err THEN Quantity(0, 0) ELSE r.h[r.r]]
    /\ UNCHANGED <<x, y, x0, token, sent>>

\* inst.fromString(s) on an instance read from the token
FillFromString ==
    \E ref \in 1..Len(heap), s \in FillStrings :
        Fill("fromString", ref, s, fromString_obj(heap, ref, s))

\* inst.fromNumber(n) on an instance read from the token
FillFromNumber ==
    \E ref \in 1..Len(heap), n \in FillNumbers :
        Fill("fromNumber", ref, NumberToString(n), fromNumber_obj(heap, ref, n))

\* Quantity.isQuantityOf(val, token)
IsQuantityOf ==
    \E val \in Values :
        /\ op' = "isQuantityOf"
        /\ arg' = [NoTokenArg EXCEPT !.quantity = val]
        /\ out' = [NoTokenOut EXCEPT !.b = isQuantityOf(val, token)]
        /\ UNCHANGED <<x, y, x0, tokenVars>>

\* token.getBalance(address); a dryrun that rejects makes the call reject
GetBalance ==
    \E res \in BalanceResults :
        \E r \in {IF res.rejected THEN Thrown ELSE getBalance(token, res.Messages)} :
            /\ op' = "getBalance"
            /\ arg' = [NoTokenArg EXCEPT !.res = res]
            /\ out' = [NoTokenOut EXCEPT !.err = r.err, !.q = r.v]
            /\ UNCHANGED <<x, y, x0, tokenVars>>

\* token.getBalances()
GetBalances ==
    \E res \in BalancesResults :
        /\ op' = "getBalances"
        /\ arg' = [NoTokenArg EXCEPT !.res = res]
        /\ out' = [NoTokenOut EXCEPT
                       !.err = res.rejected,
                       !.bals = IF res.rejected THEN <<>>
                                ELSE getBalances(token, res.Messages)]
        /\ UNCHANGED <<x, y, x0, tokenVars>>

\* token.transfer(quantity, recipient); ao.message() may reject after it
\* was handed the message
Transfer ==
    /\ Len(sent) < MaxSent
    /\ \E quantity \in Values, recipient \in Recipients :
          \E r \in {transfer(token, sent, quantity, recipient)} :
              /\ sent' = r.sent
              /\ op' = "transfer"
              /\ arg' = [NoTokenArg EXCEPT !.quantity = quantity, !.recipient = recipient]
              /\ \E rejected \in (IF r.err THEN {TRUE} ELSE BOOLEAN) :
                     out' = [NoTokenOut EXCEPT !.err = rejected]
              /\ UNCHANGED <<x, y, x0, token, heap>>

NextToken ==
    \/ ReadQuantity
    \/ FillFromString
    \/ FillFromNumber
    \/ IsQuantityOf
    \/ GetBalance
    \/ GetBalances
    \/ Transfer

SpecToken == InitToken /\ [][NextToken]_vars

(***************************************************************************)
(* Properties.                                                             *)
(***************************************************************************)
Max2(a, b) == IF a > b THEN a ELSE b

\* a / b rounded toward zero, for b > 0
TruncQuot(a, b) == IF a >= 0 THEN a \div b ELSE -((-a) \div b)

\* the raw of q widened to the denomination M >= q.D
Widened(q, M) == q.qty * BigIntPow(10, M - q.D)

\* C1: eq, lt and le return x' = y', x' < y' and x' <= y', where x' and y'
\* are the raws of x and y widened to the larger of the two denominations.
C1_Comparisons ==
    LET M == Max2(x.D, y.D)
        xw == Widened(x, M)
        yw == Widened(y, M)
    IN  /\ op = "eq" => (out.b <=> xw = yw)
        /\ op = "lt" => (out.b <=> xw < yw)
        /\ op = "le" => (out.b <=> xw <= yw)

\* C1 witness: two nonzero instances of different denominations found equal
C1_Witness == op = "eq" /\ out.b /\ x.D # y.D /\ x.qty # 0 /\ x.qty # y.qty

BinaryOps == {"add", "sub", "mul", "div", "mod", "pow"}

\* the exponent of the last pow was a Quantity whose value is zero
ZeroQuantityExponent == op = "pow" /\ ~arg.big /\ y.qty = 0

\* C2 as stated: after x._op(y) the receiver keeps its denomination D0, its
\* raw is the static result converted back to D0, and the static result has
\* the denomination max(x0.D, y.D).
C2_Original ==
    (op \in BinaryOps /\ ~arg.big /\ ~out.err) =>
        /\ x.D = x0.D
        /\ x.qty = TruncQuot(out.q.qty, BigIntPow(10, out.q.D - x0.D))
        /\ out.q.D = Max2(x0.D, y.D)

\* C2 amended: as stated, except that __pow with a Quantity exponent equal to
\* zero returns one at the receiver's denomination x0.D, not at max(x0.D, y.D).
C2_InPlace ==
    (op \in BinaryOps /\ ~out.err) =>
        /\ x.D = x0.D
        /\ out.q.D >= x0.D
        /\ x.qty = TruncQuot(out.q.qty, BigIntPow(10, out.q.D - x0.D))
        /\ ~arg.big => out.q.D = (IF ZeroQuantityExponent THEN x0.D ELSE Max2(x0.D, y.D))

\* C2 witness: an in-place add of an operand of larger denomination that lost
\* the low-order digit of the static sum
C2_Witness ==
    /\ op = "add" /\ y.D > x0.D /\ out.q.D = y.D
    /\ x.qty * BigIntPow(10, y.D - x0.D) # out.q.qty

\* C3: __convert(q, T) has denomination T and raw q.raw * 10^(T - D) when
\* T >= D, q.raw / 10^(D - T) truncated toward zero when T < D; _convert(T)
\* puts the same raw and denomination into the receiver.
C3_Convert ==
    op = "convert" =>
        LET T == arg.n
            expected == IF T >= x0.D THEN x0.qty * BigIntPow(10, T - x0.D)
                        ELSE TruncQuot(x0.qty, BigIntPow(10, x0.D - T))
        IN  /\ ~out.err
            /\ out.q = Quantity(expected, T)
            /\ x = Quantity(expected, T)

\* C3 witness: a negative value narrowed with a nonzero discarded digit
C3_Witness ==
    /\ op = "convert" /\ arg.n < x0.D /\ x0.qty < 0
    /\ x.qty * BigIntPow(10, x0.D - arg.n) # x0.qty

\* the largest denomination of a nonempty list
MaxDenomination(qs) == CHOOSE m \in {qs[i].D : i \in 1..Len(qs)} :
                           \A i \in 1..Len(qs) : qs[i].D <= m

\* C4: sameDenomination returns a list of the same length and order, every
\* element at the maximum denomination M of the inputs with raw widened by
\* 10^(M - D); lists of zero or one element and lists that already share one
\* denomination come back unchanged.
C4_SameDenomination ==
    /\ op = "sameDenomination" =>
        /\ Len(out.qs) = Len(arg.qs)
        /\ \A i \in 1..Len(arg.qs) :
              LET M == MaxDenomination(arg.qs)
              IN  out.qs[i] = Quantity(Widened(arg.qs[i], M), M)
        /\ (Len(arg.qs) <= 1 \/ \A i, j \in 1..Len(arg.qs) : arg.qs[i].D = arg.qs[j].D)
              => out.qs = arg.qs
    /\ op = "sameDenominationAgain" => out.qs = arg.qs

\* C4 witness: three nonzero elements of three denominations, the largest first
C4_Witness ==
    /\ op = "sameDenomination" /\ Len(arg.qs) = 3
    /\ arg.qs[1].D > arg.qs[3].D /\ arg.qs[3].D > arg.qs[2].D
    /\ \A i \in 1..3 : arg.qs[i].qty # 0
    /\ out.qs # arg.qs

\* C5: fromString(v.toString()) on an instance of v's denomination yields an
\* instance whose raw is v.raw, for every v (any sign, any denomination).
C5_RoundTrip ==
    op = "parseFormatted" => (~out.err /\ out.q.qty = x.qty /\ out.q.D = x.D)

V12456_000055 == <<"1", "2", "4", "5", "6", ".", "0", "0", "0", "0", "5", "5">>

V12456_00055 == <<"1", "2", "4", "5", "6", ".", "0", "0", "0", "5", "5">>

\* C6 as stated: "12456.000055" parsed at denomination 5 has integer part
\* 12456 and fractional part 55.
C6_Original ==
    (op = "fromString" /\ arg.s = V12456_000055 /\ x0.D = 5) =>
        (~out.err /\ integer(x) = 12456 /\ fractional(x) = 55)

\* C6 amended: "12456.000055" parsed at denomination 5 has integer part 12456
\* and fractional part 5 (the sixth fractional digit is discarded); it is
\* "12456.00055" that has integer part 12456 and fractional part 55.
C6_Parse ==
    /\ (op = "fromString" /\ arg.s = V12456_000055 /\ x0.D = 5) =>
          (~out.err /\ integer(x) = 12456 /\ fractional(x) = 5)
    /\ (op = "fromString" /\ arg.s = V12456_00055 /\ x0.D = 5) =>
          (~out.err /\ integer(x) = 12456 /\ fractional(x) = 55)

\* C6 witness: the string of the claim has been parsed at denomination 5
C6_Witness ==
    op = "fromString" /\ arg.s = V12456_000055 /\ x0.D = 5 /\ x.qty = 1245600005

\* the first min(Len(F), D) digits of F followed by zeros up to D digits
FirstDigitsFilled(F, D) ==
    LET kept == SubSeq(F, 1, Min2(Len(F), D))
    IN  DigitsToNat(kept \o [i \in 1..(D - Len(kept)) |-> "0"])

\* C7: for a string "I.F" or "I" of decimal digits, commas ignored, fromString
\* sets raw = I * 10^D + f, f the first min(len(F), D) digits of F followed by
\* zeros up to D digits; no fractional part gives I * 10^D; the empty string
\* gives 0; the denomination is not changed.
C7_FromString ==
    op = "fromString" =>
        LET v == SelectSeq(arg.s, LAMBDA c : c # ",")
            parts == Split(v)
            I == parts[1]
            F == IF Len(parts) = 2 THEN parts[2] ELSE <<>>
            D == x0.D
        IN  (Len(parts) <= 2 /\ AllDigits(I) /\ AllDigits(F)) =>
                /\ ~out.err
                /\ x.D = D
                /\ x.qty = DigitsToNat(I) * BigIntPow(10, D) + FirstDigitsFilled(F, D)
                /\ F = <<>> => x.qty = DigitsToNat(I) * BigIntPow(10, D)
                /\ v = <<>> => x.qty = 0

\* C7 witness: a fraction longer than the denomination whose first discarded
\* digit is 5 has been parsed, and the digit was dropped without rounding
C7_Witness ==
    /\ op = "fromString" /\ ~out.err /\ x0.D = 1
    /\ arg.s = <<"5", ".", "5", "5">>
    /\ x.qty = 55

\* the decimal rendering of raw / 10^D: sign, integer digits and, when the
\* fractional part is nonzero, "." and its D digits without trailing zeros
Decimal(q) ==
    LET p == BigIntPow(10, q.D)
        whole == Abs(q.qty) \div p
        frac == Abs(q.qty) % p
        digits == NatToString(frac)
        padded == [i \in 1..(q.D - Len(digits)) |-> "0"] \o digits
    IN  IF q.qty = 0 THEN <<"0">>
        ELSE (IF q.qty < 0 THEN <<"-">> ELSE <<>>) \o NatToString(whole)
             \o (IF frac = 0 THEN <<>> ELSE <<".">> \o StripTrailingZeros(padded))

\* C8: toString returns "0" for raw 0 and otherwise the integer part with the
\* sign of the value (also for values strictly between -1 and 0), followed,
\* when the fractional part is nonzero, by "." and the fractional digits
\* left-padded to D digits with trailing zeros removed.
C8_ToString == op = "toString" => (~out.err /\ out.s = Decimal(x))

\* a part of the input holds a character that is not a decimal digit
\* (one leading sign of the integer part excepted)
Malformed(s) ==
    LET v == SelectSeq(s, LAMBDA c : c # ",")
        k == IF \E i \in 1..Len(v) : v[i] = "."
             THEN CHOOSE i \in 1..Len(v) : v[i] = "." /\ \A j \in 1..(i - 1) : v[j] # "."
             ELSE Len(v) + 1
        before == SubSeq(v, 1, k - 1)
        after == SubSeq(v, k + 1, Len(v))
        unsigned == IF before # <<>> /\ before[1] \in {"-", "+"} THEN Tail(before) ELSE before
    IN  ~AllDigits(unsigned) \/ ~AllDigits(after)

\* C9: fromString raises an error and stores nothing for every input with a
\* non-digit character before or after the decimal point, wherever it stands.
C9_ParseError ==
    (op = "fromString" /\ Malformed(arg.s)) => (out.err /\ x = x0)

\* C10: __floor(x) has x's denomination and the greatest multiple of 10^D that
\* is <= x.raw as raw, so a whole number keeps its raw; _floor stores it.
C10_Floor ==
    op = "floor" =>
        LET p == BigIntPow(10, x0.D)
        IN  /\ out.q = Quantity((x0.qty \div p) * p, x0.D)
            /\ x = out.q
            /\ x0.qty % p = 0 => x.qty = x0.qty

\* C11: __ceil(x) has x's denomination and the least multiple of 10^D that is
\* >= x.raw as raw, so a whole number keeps its raw; _ceil stores it.
C11_Ceil ==
    op = "ceil" =>
        LET p == BigIntPow(10, x0.D)
        IN  /\ out.q = Quantity(-((-x0.qty) \div p) * p, x0.D)
            /\ x = out.q
            /\ x0.qty % p = 0 => x.qty = x0.qty

\* a / b rounded toward zero, for b # 0
SignedTruncQuot(a, b) == IF b > 0 THEN TruncQuot(a, b) ELSE TruncQuot(-a, -b)

RECURSIVE IteratedMul(_, _, _, _)
\* the raw after multiplying r by the raw xr k times with the mul rule at
\* denomination D: each product is divided by 10^D, rounded toward zero
IteratedMul(r, xr, D, k) ==
    IF k <= 0 THEN r
    ELSE IteratedMul(TruncQuot(r * xr, BigIntPow(10, D)), xr, D, k - 1)

\* C12: for a positive integer exponent n, __pow(x, n) returns the raw and the
\* denomination of the iterative definition: x multiplied by x n-1 times with
\* the mul rule at x's denomination.
C12_DirectPow ==
    (op = "pow" /\ arg.big /\ arg.n > 0) =>
        /\ ~out.err
        /\ out.q = Quantity(IteratedMul(x0.qty, x0.qty, x0.D, arg.n - 1), x0.D)

\* C13: for a negative integer exponent -n with x^n nonzero at x's
\* denomination D, __pow(x, -n) returns div(one(D), pow(x, n)) at denomination D.
C13_NegativePow ==
    LET P == IteratedMul(x0.qty, x0.qty, x0.D, (-arg.n) - 1)
        one == BigIntPow(10, x0.D)
    IN  (op = "pow" /\ arg.big /\ arg.n < 0 /\ P # 0) =>
            /\ ~out.err
            /\ out.q = Quantity(SignedTruncQuot(one * one, P), x0.D)

\* C14: for y.raw # 0, __div(x, y) has denomination M = max(x.D, y.D) and raw
\* (x' * 10^M) / y' rounded toward zero, x' and y' the raws widened to M.
C14_Div ==
    LET M == Max2(x0.D, y.D)
    IN  (op = "div" /\ y.qty # 0) =>
            /\ ~out.err
            /\ out.q = Quantity(SignedTruncQuot(Widened(x0, M) * BigIntPow(10, M),
                                                Widened(y, M)), M)

\* C14 witness: a negative quotient of instances of different denominations
\* that is not exact, so rounding toward zero and rounding down differ
C14_Witness ==
    LET M == Max2(x0.D, y.D)
    IN  /\ op = "div" /\ ~out.err /\ x0.D # y.D /\ out.q.qty < 0
        /\ out.q.qty * Widened(y, M) # Widened(x0, M) * BigIntPow(10, M)

\* the exponent of the last pow was negative and at most -1, so __pow went on
\* to the reciprocal of the positive power
ReciprocalTaken ==
    op = "pow" /\ (IF arg.big THEN arg.n < 0 ELSE y.qty <= -BigIntPow(10, y.D))

\* C15: with a divisor of raw zero, __div and _div raise an error, and so does
\* the reciprocal of a negative power of zero; the receiver of the failed call
\* keeps its raw and its denomination.
C15_DivisionByZero ==
    /\ (op = "div" /\ y.qty = 0) => (out.err /\ x = x0)
    /\ (ReciprocalTaken /\ x0.qty = 0) => (out.err /\ x = x0)

\* C15 witness: a nonzero receiver divided in place by a zero of another
\* denomination
C15_Witness ==
    op = "div" /\ y.qty = 0 /\ y.D # x0.D /\ x0.qty # 0 /\ out.err /\ x = x0

\* C15 witness of the reciprocal: zero raised to a negative Quantity exponent
C15_WitnessReciprocal ==
    ReciprocalTaken /\ ~arg.big /\ x0.qty = 0 /\ out.err

\* C16: __mul(x, y) has denomination M = max(x.D, y.D) and raw (x' * y') / 10^M
\* rounded toward zero, x' and y' the raws widened to M.
C16_Mul ==
    LET M == Max2(x0.D, y.D)
    IN  op = "mul" =>
            /\ ~out.err
            /\ out.q = Quantity(TruncQuot(Widened(x0, M) * Widened(y, M),
                                          BigIntPow(10, M)), M)

\* C16 witness: a negative product of instances of different denominations
\* that loses digits
C16_Witness ==
    LET M == Max2(x0.D, y.D)
    IN  /\ op = "mul" /\ x0.D # y.D /\ Widened(x0, M) * Widened(y, M) < 0
        /\ out.q.qty * BigIntPow(10, M) # Widened(x0, M) * Widened(y, M)

\* C17: __add(x, y) and __sub(x, y) have denomination M = max(x.D, y.D) and
\* raw x' + y' and x' - y', x' and y' the raws widened to M.
C17_AddSub ==
    LET M == Max2(x0.D, y.D)
    IN  /\ op = "add" => (~out.err /\ out.q = Quantity(Widened(x0, M) + Widened(y, M), M))
        /\ op = "sub" => (~out.err /\ out.q = Quantity(Widened(x0, M) - Widened(y, M), M))

\* C17 witness: a sum of nonzero instances where the receiver has the smaller
\* denomination and the operand a nonzero last digit
C17_Witness ==
    /\ op = "add" /\ x0.D < y.D /\ x0.qty # 0 /\ y.qty % 10 # 0
    /\ out.q.D = y.D /\ out.q.qty # x0.qty + y.qty

\* C17 witness of the difference, with the operand of smaller denomination
C17_WitnessSub ==
    op = "sub" /\ x0.D > y.D /\ x0.qty # 0 /\ y.qty # 0 /\ out.q.D = x0.D

\* C18: for y.raw # 0, __mod(x, y) has denomination M = max(x.D, y.D) and raw
\* r = x' - trunc(x' / y') * y'; |r| < |y'|, and r is zero or has the sign of x.
C18_Mod ==
    LET M == Max2(x0.D, y.D)
        xw == Widened(x0, M)
        yw == Widened(y, M)
        r == out.q.qty
    IN  (op = "mod" /\ y.qty # 0) =>
            /\ ~out.err
            /\ out.q.D = M
            /\ r = xw - SignedTruncQuot(xw, yw) * yw
            /\ Abs(r) < Abs(yw)
            /\ r = 0 \/ ((r < 0) <=> (xw < 0))

\* C18 witness: a negative dividend and a positive divisor of different
\* denominations with a nonzero (negative) remainder
C18_Witness ==
    op = "mod" /\ x0.qty < 0 /\ y.qty > 0 /\ x0.D # y.D /\ out.q.qty < 0

\* C19: no call changes the denomination of the receiver or of the operand,
\* except _convert(T), after which the receiver's denomination is T.
C19_Denomination ==
    [][/\ y'.D = y.D
       /\ x'.D = (IF op' = "_convert" THEN arg'.n ELSE x.D)]_vars

\* C19 witness: an in-place add of an operand of larger denomination changed
\* the receiver's raw and left its denomination
C19_Witness ==
    op = "_add" /\ ~out.err /\ y.D > x0.D /\ x.D = x0.D /\ x.qty # x0.qty

\* C20: a static operator or clone leaves both instances as they were, clone
\* returns another instance with the receiver's raw and denomination, and an
\* in-place operator leaves the operand as it was.
C20_Frame ==
    [][/\ op' \in StaticNames => (x' = x /\ y' = y)
       /\ op' = "clone" => (~out'.b /\ out'.q = x)
       /\ op' \in InPlaceNames => y' = y]_vars

\* C20 witness: __floor returned a new instance with another raw than its
\* negative argument
C20_Witness ==
    op = "__floor" /\ x.qty < 0 /\ x = x0 /\ ~out.b /\ out.q.qty < x.qty

\* the characters of s after its first ".", none when it has no "."
FractionPrinted(s) ==
    IF \A i \in 1..Len(s) : s[i] # "." THEN <<>>
    ELSE LET k == CHOOSE i \in 1..Len(s) : s[i] = "." /\ \A j \in 1..(i - 1) : s[j] # "."
         IN  SubSeq(s, k + 1, Len(s))

\* the D fractional digits of q, leading zeros included
FractionDigits(q) ==
    LET digits == NatToString(Abs(q.qty) % BigIntPow(10, q.D))
    IN  IF q.D = 0 THEN <<>>
        ELSE [i \in 1..(q.D - Len(digits)) |-> "0"] \o digits

\* C21: for a nonzero instance and options with 0 <= min <= max, the fraction
\* that toLocaleString prints has at most max and at least min digits, and is
\* the instance's fractional digits cut after the max-th and padded with
\* zeros; with max = 0 no fraction is printed.
C21_FractionDigits ==
    LET maxFD == arg.options.maximumFractionDigits
        minFD == arg.options.minimumFractionDigits
        printed == FractionPrinted(out.s)
        kept == SubSeq(FractionDigits(x), 1, Min2(maxFD, x.D))
    IN  (op = "toLocaleString" /\ x.qty # 0) =>
            /\ ~out.err
            /\ Len(printed) <= maxFD
            /\ Len(printed) >= minFD
            /\ StripTrailingZeros(printed) = StripTrailingZeros(kept)

\* C26: raw = integer * 10^D + fractional, integer is raw / 10^D rounded
\* toward zero and |fractional| < 10^D; for a raw int * 10^D + frac with
\* int >= 0 and 0 <= frac < 10^D the parts are int and frac.
C26_Parts ==
    LET p == BigIntPow(10, x.D)
    IN  op = "parts" =>
            /\ x.qty = out.integer * p + out.fractional
            /\ out.integer = SignedTruncQuot(x.qty, p)
            /\ Abs(out.fractional) < p
            /\ x.qty >= 0 => (out.integer = x.qty \div p /\ out.fractional = x.qty % p)

\* C26 witness: the parts of a negative instance with a nonzero fractional
\* part, where rounding toward zero and rounding down differ
C26_Witness ==
    op = "parts" /\ x.qty < 0 /\ x.D > 0 /\ out.integer < 0 /\ out.fractional < 0

\* C27: __trunc(x) has x's denomination and raw x.raw - (x.raw rem 10^D), the
\* remainder taking the sign of x.raw; its fractional part is 0, a truncated
\* value is kept by another trunc, and _trunc stores the same raw.
C27_Trunc ==
    LET p == BigIntPow(10, x0.D)
        rem == IF x0.qty >= 0 THEN x0.qty % p ELSE -((-x0.qty) % p)
    IN  op = "trunc" =>
            /\ out.q = Quantity(x0.qty - rem, x0.D)
            /\ out.q.qty % p = 0
            /\ Abs(out.q.qty) <= Abs(x0.qty) /\ Abs(x0.qty - out.q.qty) < p
            /\ x = out.q
            /\ x0.qty % p = 0 => x = x0

\* C27 witness: the trunc of a negative instance with a nonzero fractional part
C27_Witness ==
    op = "trunc" /\ x0.qty < 0 /\ x0.D > 0 /\ x.qty # x0.qty /\ x.qty < 0

\* C27 witness of the repeated trunc: a truncated nonzero instance truncated again
C27_WitnessAgain ==
    op = "trunc" /\ x0.D > 0 /\ x0.qty # 0 /\ x = x0

\* C28: __pow(x, 0), the exponent being the integer 0 or a Quantity of value
\* zero at any denomination, returns raw 10^x.D at denomination x.D, also for
\* x = 0.
C28_ZeroExponent ==
    (op = "pow" /\ (IF arg.big THEN arg.n = 0 ELSE y.qty = 0)) =>
        /\ ~out.err
        /\ out.q = Quantity(BigIntPow(10, x0.D), x0.D)

\* C28 witness: zero raised to a zero Quantity of larger denomination
C28_Witness ==
    op = "pow" /\ ~arg.big /\ y.qty = 0 /\ y.D > x0.D /\ x0.qty = 0 /\ out.q.qty > 0

\* C28 witness of the integer exponent 0 on a negative instance
C28_WitnessInteger ==
    op = "pow" /\ arg.big /\ arg.n = 0 /\ x0.qty < 0 /\ x0.D > 0 /\ out.q.qty > 1

\* C29: __mul(v, __one(D)) has the raw and the denomination of v, and eq of
\* the product and v is true.
C29_MulOne ==
    op = "mulOne" => (~out.err /\ out.q = x /\ out.b)

\* C29 witness: the product of a negative instance with a nonzero fractional
\* part and one
C29_Witness ==
    op = "mulOne" /\ x.qty < 0 /\ x.D > 0 /\ x.qty % 10 # 0 /\ out.q = x

\* a <= b as numbers, both raws widened to the larger denomination
LeAligned(a, b) ==
    LET M == Max2(a.D, b.D) IN Widened(a, M) <= Widened(b, M)

\* C25: for a nonempty list, min returns an element m with m <= q for every
\* q of the list and max an element M with q <= M, compared after aligning;
\* for the empty list both return undefined and raise nothing.
C25_MinMax ==
    LET qs == arg.qs
        elements == {qs[i] : i \in 1..Len(qs)}
    IN  op \in {"min", "max"} =>
            /\ ~out.err
            /\ out.undefined <=> qs = <<>>
            /\ qs # <<>> => out.q \in elements
            /\ (op = "min" /\ qs # <<>>) => \A q \in elements : LeAligned(out.q, q)
            /\ (op = "max" /\ qs # <<>>) => \A q \in elements : LeAligned(q, out.q)

\* C25 witness: the minimum of three instances is the second one, which has
\* the raw of the first at a larger denomination
C25_Witness ==
    /\ op = "min" /\ Len(arg.qs) = 3 /\ out.q = arg.qs[2]
    /\ arg.qs[1].qty = arg.qs[2].qty /\ arg.qs[1].D < arg.qs[2].D
    /\ arg.qs[3].D # arg.qs[2].D /\ arg.qs[3].qty > 0

\* C25 witness of max: the last of three instances is the largest
C25_WitnessMax ==
    /\ op = "max" /\ Len(arg.qs) = 3 /\ out.q = arg.qs[3]
    /\ arg.qs[3].D < arg.qs[1].D /\ arg.qs[1].qty > 0 /\ arg.qs[2].qty > 0

\* C25 witness of the empty list
C25_WitnessEmpty == op = "max" /\ arg.qs = <<>> /\ out.undefined

\* C24: new Quantity(q) has q's raw and denomination; new Quantity(q, T) has
\* denomination T and the raw of __convert(q, T); q is unchanged by either.
C24_Copy ==
    /\ op = "new Quantity(q)" => (~out.err /\ out.q = x0 /\ x = x0)
    /\ op = "new Quantity(q, T)" =>
           /\ ~out.err
           /\ out.q.D = arg.n
           /\ out.q.qty = (IF arg.n >= x0.D
                           THEN x0.qty * BigIntPow(10, arg.n - x0.D)
                           ELSE TruncQuot(x0.qty, BigIntPow(10, x0.D - arg.n)))
           /\ x = x0

\* C22: Quantity.isQuantityOf(val, token) is true if and only if val is a
\* Quantity instance and its denomination equals token.info.Denomination.
C22_IsQuantityOf ==
    op = "isQuantityOf" =>
        LET val == arg.quantity
        IN  out.b <=> /\ val.type = "object"
                      /\ val.instanceofQuantity
                      /\ val.q.D = token.info.Denomination

C22_Witness ==
    /\ op = "isQuantityOf"
    /\ out.b
    /\ arg.quantity.q.qty # 0

\* false for an instance of another denomination
C22_WitnessOther ==
    /\ op = "isQuantityOf"
    /\ ~out.b
    /\ arg.quantity.instanceofQuantity

\* false for a value that is not an instance
C22_WitnessNoInstance ==
    /\ op = "isQuantityOf"
    /\ ~out.b
    /\ ~arg.quantity.instanceofQuantity
    /\ arg.quantity.q.D = token.info.Denomination

\* a message of the dryrun answer carries a balance: Data under a mirror,
\* a Balance tag otherwise
CarriesBalance(msg) ==
    IF token.info.Mirror # <<>> THEN msg.Data # <<>>
    ELSE \E i \in 1..Len(msg.Tags) :
             msg.Tags[i].name = "Balance" /\ msg.Tags[i].value # <<>>

OfToken(q) == q.D = token.info.Denomination /\ isQuantityOf(QuantityValue(q), token)

\* what the token has produced is of its denomination
ProducedOfToken ==
    /\ op = "Quantity" => OfToken(out.q)
    /\ (op = "getBalance" /\ ~out.err) => OfToken(out.q)
    /\ (op = "getBalance" /\ ~arg.res.rejected
          /\ \A i \in 1..Len(arg.res.Messages) : ~CarriesBalance(arg.res.Messages[i]))
          => (~out.err /\ out.q = Quantity(0, token.info.Denomination))
    /\ op = "getBalances" => \A addr \in DOMAIN out.bals : OfToken(out.bals[addr])

\* a read of token.Quantity returns an instance that was not there before,
\* and filling an instance leaves every other instance as it was
FreshInstances ==
    /\ op' = "Quantity" =>
           /\ out'.ref \notin 1..Len(heap)
           /\ \A r \in 1..Len(heap) : heap'[r] = heap[r]
    /\ op' \in {"fromString", "fromNumber"} =>
           \A r \in 1..Len(heap) : r # arg'.ref => heap'[r] = heap[r]

\* C23: every Quantity the token produces (the getter, getBalance with and
\* without a balance message, the entries of getBalances) has the token's
\* denomination and passes isQuantityOf; getBalance without a balance
\* message returns raw 0; each read of token.Quantity is a fresh instance,
\* which filling another instance does not change.
C23_Produced == []ProducedOfToken /\ [][FreshInstances]_vars

\* a second instance was read and filled while the first keeps its value
C23_Witness ==
    /\ op \in {"fromString", "fromNumber"}
    /\ ~out.err
    /\ Len(heap) = 2
    /\ arg.ref = 2
    /\ heap[1] # heap[2]
    /\ heap[2].qty # 0

\* a balance found in a message
C23_WitnessBalance ==
    /\ op = "getBalance"
    /\ ~out.err
    /\ out.q.qty # 0
    /\ out.q.D > 0

\* the default of getBalance after messages without a balance
C23_WitnessDefault ==
    /\ op = "getBalance"
    /\ ~out.err
    /\ arg.res.Messages # <<>>
    /\ \A i \in 1..Len(arg.res.Messages) : ~CarriesBalance(arg.res.Messages[i])
    /\ token.info.Denomination > 0

\* getBalances with entries from two messages, one cut short by a value
\* that is no integer
C23_WitnessBalances ==
    /\ op = "getBalances"
    /\ Cardinality(DOMAIN out.bals) = 3
    /\ token.info.Denomination > 0

\* the value of the first tag called name in the message m
TagOf(m, name) == getTagValue(name, m.tags)

\* the guards of transfer as the claim states them
GuardsPass(quantity, recipient) ==
    /\ isAddress(recipient)
    /\ quantity.type = "object"
    /\ quantity.instanceofQuantity
    /\ quantity.q.D = token.info.Denomination

\* a call of transfer: no message and a throw unless both guards pass, and
\* a message that is handed over carries the raw integer and the recipient
TransferStep ==
    op' = "transfer" =>
        LET quantity == arg'.quantity
            recipient == arg'.recipient
        IN  /\ ~GuardsPass(quantity, recipient) => (out'.err /\ sent' = sent)
            /\ sent' # sent =>
                   /\ Len(sent') = Len(sent) + 1
                   /\ SubSeq(sent', 1, Len(sent)) = sent
                   /\ TagOf(sent'[Len(sent')], "Quantity") = BigIntToString(quantity.q.qty)
                   /\ TagOf(sent'[Len(sent')], "Recipient") = recipient.s
                   /\ TagOf(sent'[Len(sent')], "Action") = <<"T", "r", "a", "n", "s", "f", "e", "r">>

\* C30: transfer hands a Transfer message to ao only after both guards
\* pass; otherwise it throws and no message is sent.  The Quantity tag of a
\* message sent is the decimal rendering of quantity.raw and its Recipient
\* tag is the recipient given.
C30_Transfer == [][TransferStep]_vars

\* a message sent for a quantity whose raw digits differ from toString()
C30_Witness ==
    /\ op = "transfer"
    /\ ~out.err
    /\ Len(sent) = 1
    /\ TagOf(sent[1], "Quantity") = BigIntToString(arg.quantity.q.qty)
    /\ TagOf(sent[1], "Quantity") # toString(arg.quantity.q).s
    /\ TagOf(sent[1], "Recipient") = arg.recipient.s

\* a valid recipient with an instance of another denomination: nothing sent
C30_WitnessQuantity ==
    /\ op = "transfer"
    /\ out.err
    /\ sent = <<>>
    /\ isAddress(arg.recipient)
    /\ arg.quantity.instanceofQuantity

\* an instance of the token with a recipient that is no address
C30_WitnessRecipient ==
    /\ op = "transfer"
    /\ out.err
    /\ sent = <<>>
    /\ arg.recipient.type = "string"
    /\ ~isAddress(arg.recipient)
    /\ arg.quantity.instanceofQuantity
    /\ arg.quantity.q.D = token.info.Denomination

====
